---- MODULE Spec2Model ----
(***************************************************************************)
(* Headless controllers of @jamwidgets/core (src/src/index.ts).            *)
(*                                                                         *)
(* `kind` says which of the nine classes the controller instance is; a     *)
(* second instance of the same class, made with the same arguments, is in  *)
(* `other`.  JavaScript runs each synchronous segment of a                 *)
(* method to completion, so one action is one such segment: a call up to   *)
(* its first await, or the continuation that runs when a request settles.  *)
(* `log` holds what the last segment did, in program order.                *)
(*                                                                         *)
(* A listener returns normally; what else its callback does is its script: *)
(* nothing, a subscribe() or an unsubscribe call, or a write to the        *)
(* snapshot it was handed.  CommentsController.post() resumes in the same  *)
(* microtask run in which its fetch() finishes, so both are one segment.   *)
(***************************************************************************)
EXTENDS Integers, Sequences, FiniteSets, TLC

\* ------------------------------------------------------------------ bounds
MaxListeners == 2
MaxInFlight == 2
\* the clock, in seconds, runs from FirstTime up to MaxTime
MaxTime == 4
\* the unsubscribe functions a caller keeps apart
MaxKept == 3

\* ------------------------------------------------------------- JS values
Null == [tag |-> "null"]
Undefined == [tag |-> "undefined"]
Str(s) == [tag |-> "string", s |-> s]
Num(n) == [tag |-> "number", n |-> n]
\* an Error object with its message
Err(m) == [tag |-> "error", message |-> m]

Digits == <<"0", "1", "2", "3", "4", "5", "6", "7", "8", "9">>

\* String(v) for the values a rejection carries here
String(v) ==
  CASE v.tag = "string" -> v.s
    [] v.tag = "number" -> Digits[v.n + 1]
    [] v.tag = "null" -> "null"
    [] v.tag = "undefined" -> "undefined"
    [] v.tag = "error" -> v.message

\* a catch block that keeps e as it is
NormalizeRaw(e) == e

\* e instanceof Error ? e : new Error(String(e))
NormalizeError(e) == IF e.tag = "error" THEN e ELSE Err(String(e))

\* ------------------------------------------------------------ controllers
SubmitKinds == {"subscribe", "waitlist", "form", "feedback"}
FetchKinds == {"reactions", "comments", "poll", "announcements", "viewcounts"}
Kinds == SubmitKinds \cup FetchKinds

\* kind      which controller class the instance is
\* config    the config object the constructor was given
\* document  the global document, as far as getConfigFromMeta() reads it
\* state     the private _state object
\* listeners the listener Set, in insertion order
\* script    what the callback of each listener does when it is called
\* last      the snapshot each registered listener was handed last
\* unsubs    the listeners for which subscribe() has returned an unsubscribe
\*           function
\* inflight  the requests issued and not settled, in the order of issue
\* held      at most one snapshot kept by a caller of getState()
\* other     the second instance: its state, listeners, unsubs, inflight and
\*           last, and `shared`, the nested containers of its _state that
\*           are the very objects the first instance holds
\* visitor   the module variable customVisitorId, the storage of the
\*           environment and the outcome of the last getVisitorId()
\* timer     the clock, Math.floor(Date.now() / 1000), and the loadTime field
\*           of a FormController
\* kept      the unsubscribe functions a caller keeps apart, in the order
\*           subscribe() returned them: the listener each closes over, and
\*           whether that subscribe() found the listener registered
\* log       what the last synchronous segment did, in program order
VARIABLES kind, config, document, state, listeners, script, last, unsubs, inflight, held,
          other, visitor, timer, kept, log

vars == <<kind, config, document, state, listeners, script, last, unsubs, inflight, held,
          other, visitor, timer, kept, log>>

ListenerIds == 1..MaxListeners

EmptyMap == [x \in {} |-> 0]

\* the field initialisers of _state
InitialState(k) ==
  CASE k \in {"subscribe", "form", "feedback"} ->
         [status |-> "idle", message |-> Null, error |-> Null]
    [] k = "waitlist" ->
         [status |-> "idle", message |-> Null, position |-> Null, error |-> Null]
    [] k = "reactions" ->
         [counts |-> EmptyMap, userReactions |-> <<>>, status |-> "idle", error |-> Null]
    [] k = "comments" ->
         [comments |-> <<>>, status |-> "idle", error |-> Null]
    [] k = "poll" ->
         [poll |-> Null, status |-> "idle", error |-> Null]
    [] k = "announcements" ->
         [announcements |-> <<>>, dismissed |-> {}, status |-> "idle", error |-> Null]
    [] k = "viewcounts" ->
         [pageId |-> "page", views |-> 0, uniqueVisitors |-> 0, status |-> "idle",
          error |-> Null]

\* getState() as { ...this._state } in every class: no container is copied
GetStateShallow(k, s) ==
  [snap |-> s,
   aliases |-> DOMAIN s \cap {"counts", "userReactions", "comments", "poll",
                              "announcements", "dismissed"}]

\* getState(): the snapshot, and `aliases`, the nested containers of the
\* snapshot that are the very objects _state holds (not copies)
GetState(k, s) ==
  CASE k = "poll" ->
         [snap |-> s, aliases |-> IF s.poll = Null THEN {} ELSE {"poll"}]
    [] OTHER -> [snap |-> s, aliases |-> {}]

\* ----------------------------------------------- one synchronous segment
\* The segment works on a record of the instance and appends to its log.
\* `snap` is the snapshot object a listener is being called with, `peer` the
\* instance that is not running, `exc` the exception on its way up the call
\* stack, Null where there is none.
Begin(first) ==
  [st |-> state, ls |-> listeners, un |-> unsubs, fl |-> inflight, held |-> held,
   last |-> last, snap |-> Null, peer |-> other, tm |-> timer, kept |-> kept,
   exc |-> Null, log |-> <<first>>]

\* a segment of the second instance
Begin2(first) ==
  [st |-> other.state, ls |-> other.listeners, un |-> other.unsubs, fl |-> other.inflight,
   held |-> <<>>, last |-> other.last, snap |-> Null,
   peer |-> [state |-> state, listeners |-> listeners, unsubs |-> unsubs,
             inflight |-> inflight, last |-> last, shared |-> other.shared],
   tm |-> timer, kept |-> kept, exc |-> Null, log |-> <<first>>]

\* A Set keeps its entries in insertion order; delete() empties the entry and
\* leaves its place, so that an iteration under way passes over it.
Empty == 0
Compact(ls) == SelectSeq(ls, LAMBDA x : x # Empty)

Commit(m) ==
  /\ state' = m.st
  /\ listeners' = Compact(m.ls)
  /\ last' = [l \in {m.ls[i] : i \in DOMAIN m.ls} \ {Empty} |->
               IF l \in DOMAIN m.last THEN m.last[l] ELSE Null]
  /\ unsubs' = m.un
  /\ inflight' = m.fl
  /\ held' = m.held
  /\ other' = m.peer
  /\ timer' = m.tm
  /\ kept' = m.kept
  /\ log' = m.log
  /\ UNCHANGED <<kind, config, document, script, visitor>>

Commit2(m) ==
  /\ other' = [state |-> m.st, listeners |-> Compact(m.ls), unsubs |-> m.un,
               inflight |-> m.fl,
               last |-> [l \in {m.ls[i] : i \in DOMAIN m.ls} \ {Empty} |->
                           IF l \in DOMAIN m.last THEN m.last[l] ELSE Null],
               shared |-> m.peer.shared]
  /\ state' = m.peer.state
  /\ listeners' = m.peer.listeners
  /\ unsubs' = m.peer.unsubs
  /\ inflight' = m.peer.inflight
  /\ last' = m.peer.last
  /\ timer' = m.tm
  /\ kept' = m.kept
  /\ log' = m.log
  /\ UNCHANGED <<kind, config, document, script, held, visitor>>

Emit(m, ev) == [m EXCEPT !.log = Append(@, ev)]

\* this._state = s, where `replaced` names the nested containers that are
\* new objects in s; a snapshot held outside keeps the old ones
SetState(m, s, replaced) ==
  [m EXCEPT !.st = s,
            !.held = [i \in DOMAIN m.held |->
                        [m.held[i] EXCEPT !.aliases = @ \ replaced]],
            !.peer.shared = @ \ replaced,
            !.log = Append(@, [e |-> "set", from |-> m.st.status, status |-> s.status])]

\* ------------------------------------------------------------- listeners
\* listeners kept in an array: push(listener)
SetAddPush(ls, l) == Append(ls, l)

\* Set.add(l)
SetAdd(ls, l) == IF \E i \in DOMAIN ls : ls[i] = l THEN ls ELSE Append(ls, l)
SetDelete(ls, l) == [i \in DOMAIN ls |-> IF ls[i] = l THEN Empty ELSE ls[i]]
Has(ls, l) == \E i \in DOMAIN ls : ls[i] = l

\* the nested containers a snapshot of class k can have, by path
KindPaths(k) ==
  CASE k = "reactions" -> {<<"counts">>, <<"userReactions">>}
    [] k = "comments" -> {<<"comments">>}
    [] k = "poll" -> {<<"poll", "results">>, <<"poll", "userVotes">>}
    [] k = "announcements" -> {<<"announcements">>, <<"dismissed">>}
    [] OTHER -> {}

\* x || [] on a decoded field
OrEmpty(v) == IF v.tag = "array" THEN v.items ELSE <<>>

\* what a holder of a snapshot does to it at path c: a new status, or one
\* more key, element or id in a container
Changed(snap, c) ==
  CASE c = <<"status">> -> [snap EXCEPT !.status = "touched"]
    [] c = <<"counts">> -> [snap EXCEPT !.counts = ("zz" :> 9) @@ @]
    [] c = <<"userReactions">> -> [snap EXCEPT !.userReactions = Append(@, "zz")]
    [] c = <<"comments">> -> [snap EXCEPT !.comments = Append(@, "zz")]
    [] c = <<"announcements">> ->
         [snap EXCEPT !.announcements = Append(@, [id |-> 9, content |-> "text",
                                                   isDismissible |-> TRUE])]
    [] c = <<"dismissed">> -> [snap EXCEPT !.dismissed = @ \cup {9}]
    [] c = <<"poll", "results">> -> [snap EXCEPT !.poll.results = ("zz" :> 9) @@ @]
    [] c = <<"poll", "userVotes">> ->
         [snap EXCEPT !.poll.userVotes =
                        [tag |-> "array", items |-> Append(OrEmpty(@), "zz")]]

\* the scripts: nothing, controller.subscribe(t), the unsubscribe function
\* of t, or a write to the snapshot at path c
NoScript == [act |-> "none"]
Scripts(k) ==
  {NoScript}
    \cup {[act |-> a, t |-> t] : a \in {"subscribe", "unsubscribe"}, t \in ListenerIds}
    \cup {[act |-> "write", path |-> c] : c \in {<<"status">>} \cup KindPaths(k)}

\* the write of a listener to the snapshot m.snap it was called with; where
\* the container written is the one _state holds, _state changes with it
WriteSnapshot(m, l, c) ==
  LET can == /\ c[1] = "poll" => m.snap.snap.poll # Null
             /\ c = <<"poll", "userVotes">> =>
                  ~\E i \in DOMAIN OrEmpty(m.snap.snap.poll.userVotes) :
                     OrEmpty(m.snap.snap.poll.userVotes)[i] = "zz"
      after == Changed(m.snap.snap, c)
  IN IF ~can
     THEN m
     ELSE [m EXCEPT !.snap.snap = after,
                    !.st = IF c[1] \in m.snap.aliases
                           THEN [@ EXCEPT ![c[1]] = after[c[1]]]
                           ELSE @,
                    !.log = Append(@, [e |-> "write", l |-> l, path |-> c])]

\* a callback that throws `value` when it is handed a snapshot whose status
\* is in `at`
Statuses == {"idle", "loading", "success", "error"}
ThrowScripts ==
  {[act |-> "throw", at |-> at, value |-> v] :
     at \in {Statuses, {"loading"}, {"success"}}, v \in {Err("boom"), Str("boom")}}

\* throw value, out of the callback of listener l
Raise(m, l, value) ==
  [m EXCEPT !.exc = value, !.log = Append(@, [e |-> "raise", l |-> l, value |-> value])]

\* the catch clause has taken the exception
Caught(m) == [m EXCEPT !.exc = Null]

\* a callback that calls reset() of the controller when it is handed a
\* snapshot whose status is in `at`; it is not handed Idle by reset() itself
ResetScripts ==
  {[act |-> "reset", at |-> at] :
     at \in {{"loading"}, {"success"}, {"error"}, {"success", "error"}}}

RECURSIVE React(_, _)
RECURSIVE ResetCall(_, _)

\* notify() that hands every listener a snapshot taken at its turn
CallWithNewSnapshot(m, l, b) ==
  LET now == GetState(kind, m.st)
  IN React([m EXCEPT !.snap = now,
                     !.last = (l :> now.snap) @@ @,
                     !.log = Append(@, [e |-> "notify", l |-> l, snap |-> now.snap,
                                        b |-> b])], l)


\* listener(state): listener l is called with the snapshot m.snap; b is the
\* place in the log where the broadcast began, 0 for the replay of subscribe()
Call(m, l, b) ==
  React([m EXCEPT !.last = (l :> m.snap.snap) @@ @,
                  !.log = Append(@, [e |-> "notify", l |-> l, snap |-> m.snap.snap,
                                     b |-> b])], l)

\* subscribe() that registers the listener and does not call it
SubscribeCallNoReplay(m, l) ==
  Emit([m EXCEPT !.ls = SetAdd(@, l), !.un = @ \cup {l}],
       [e |-> "return", op |-> "subscribe", value |-> Null])

\* subscribe(listener): add, replay the current state, return the closure;
\* where the replay throws, the listener stays added and nothing is returned
SubscribeCall(m, l) ==
  LET m1 == [m EXCEPT !.ls = SetAdd(@, l)]
      m2 == Call([m1 EXCEPT !.snap = GetState(kind, m1.st)], l, 0)
  IN IF m2.exc # Null
     THEN [m2 EXCEPT !.snap = m.snap]
     ELSE Emit([m2 EXCEPT !.un = @ \cup {l}, !.snap = m.snap],
               [e |-> "return", op |-> "subscribe", value |-> Null])

\* an unsubscribe closure that empties the Set once its listener is gone
UnsubscribeCallClear(m, l) ==
  Emit([m EXCEPT !.ls = IF Has(@, l) THEN SetDelete(@, l) ELSE <<>>],
       [e |-> "return", op |-> "unsubscribe",
        value |-> [tag |-> "boolean", b |-> Has(m.ls, l)]])

\* the closure subscribe() returned: () => this.listeners.delete(listener)
UnsubscribeCall(m, l) ==
  Emit([m EXCEPT !.ls = SetDelete(@, l)],
       [e |-> "return", op |-> "unsubscribe",
        value |-> [tag |-> "boolean", b |-> Has(m.ls, l)]])

\* the body of the callback of listener l
React(m, l) ==
  CASE script[l].act = "none" -> m
    [] script[l].act = "subscribe" -> SubscribeCall(m, script[l].t)
    [] script[l].act = "unsubscribe" ->
         IF script[l].t \in m.un THEN UnsubscribeCall(m, script[l].t) ELSE m
    [] script[l].act = "write" -> WriteSnapshot(m, l, script[l].path)
    [] script[l].act = "throw" ->
         IF m.snap.snap.status \in script[l].at THEN Raise(m, l, script[l].value) ELSE m
    [] script[l].act = "reset" ->
         IF m.snap.snap.status \in script[l].at
         THEN ResetCall(Emit(m, [e |-> "call", op |-> "reset", by |-> l]), kind)
         ELSE m

\* a loop that calls the listeners left before it lets the exception out
RECURSIVE DeliverPastThrow(_, _, _)
DeliverPastThrow(m, i, b) ==
  IF i > Len(m.ls)
  THEN m
  ELSE IF m.ls[i] = Empty
       THEN DeliverPastThrow(m, i + 1, b)
       ELSE DeliverPastThrow(Call(m, m.ls[i], b), i + 1, b)

\* for (const listener of this.listeners) listener(state), from entry i on:
\* the Set is read anew at every turn, and a callback that throws ends the
\* loop
RECURSIVE Deliver(_, _, _)
Deliver(m, i, b) ==
  IF i > Len(m.ls)
  THEN m
  ELSE IF m.ls[i] = Empty
       THEN Deliver(m, i + 1, b)
       ELSE LET m1 == Call(m, m.ls[i], b)
            IN IF m1.exc # Null THEN m1 ELSE Deliver(m1, i + 1, b)

\* notify(): one getState(), handed to the listeners in Set order
Notify(m) ==
  LET m1 == Emit([m EXCEPT !.snap = GetState(kind, m.st)],
                 [e |-> "broadcast", ls |-> Compact(m.ls)])
  IN [Deliver(m1, 1, Len(m1.log)) EXCEPT !.snap = m.snap]

\* --------------------------------------------------------------- site key
\* if (v) on a string that may be missing
Truthy(v) == v.tag = "string" /\ v.s # ""

\* A document is Undefined where there is none, or says for each of the two
\* meta tag names the content of the first such tag, Null where there is none.
Meta(jamwidgets, seriph) == [jamwidgets |-> jamwidgets, seriph |-> seriph]

Configs == {[siteKey |-> Undefined], [siteKey |-> Str("")], [siteKey |-> Str("sk")]}
Documents ==
  {Undefined, Meta(Null, Null), Meta(Str(""), Str("sk-old")), Meta(Null, Str("sk-old")),
   Meta(Str("sk-meta"), Null)}

\* getConfigFromMeta(), its siteKey
GetConfigFromMeta(doc) ==
  IF doc = Undefined
  THEN Null
  ELSE LET siteKeyMeta == IF doc.jamwidgets # Null THEN doc.jamwidgets ELSE doc.seriph
       IN IF ~Truthy(siteKeyMeta) THEN Null ELSE [siteKey |-> siteKeyMeta]

SiteKeyError ==
  Err("siteKey is required. Either pass it as a prop or add <meta name=\"jamwidgets-site-key\" content=\"your-key\" /> to your document head.")

\* getSiteKey(config): the key, or the Error it throws
GetSiteKey(c, doc) ==
  IF Truthy(c.siteKey)
  THEN [ok |-> TRUE, value |-> c.siteKey]
  ELSE LET metaConfig == GetConfigFromMeta(doc)
       IN IF metaConfig # Null /\ Truthy(metaConfig.siteKey)
          THEN [ok |-> TRUE, value |-> metaConfig.siteKey]
          ELSE [ok |-> FALSE, value |-> SiteKeyError]

\* ------------------------------------------------------------ visitor id
\* The environments getVisitorId() can run in: no window or localStorage
\* (server-side rendering), a working localStorage, one whose setItem()
\* throws (no quota), and one that throws on every access.
Environments == {"ssr", "ok", "full", "denied"}

\* what generateUUID() can return
UUIDs == {"g1", "g2", "g3"}

\* what setVisitorId() can be called with: string | null
VisitorIds == {Null, Str(""), Str("u1"), Str("u2")}

SecurityError == Err("SecurityError")
QuotaExceededError == Err("QuotaExceededError")

\* a browser in which an earlier getVisitorId() has stored its id: there the
\* getVisitorId() that getHeaders() calls for every request only reads it,
\* which is why the requests of the controllers leave `visitor` alone
ReturningVisitor == [env |-> "ok", customVisitorId |-> Null, stored |-> Str("g1")]

\* setVisitorId(id)
SetVisitorIdCall(v, id) == [v EXCEPT !.customVisitorId = id]

\* getVisitorId() that generates and stores an id at every call
GetVisitorIdAlwaysNew(v, u) ==
  IF Truthy(v.customVisitorId)
  THEN [v |-> v, result |-> [ok |-> TRUE, value |-> v.customVisitorId], events |-> <<>>]
  ELSE [v |-> [v EXCEPT !.stored = Str(u)],
        result |-> [ok |-> TRUE, value |-> Str(u)],
        events |-> <<[e |-> "getItem", value |-> v.stored],
                     [e |-> "setItem", value |-> Str(u)]>>]

\* getVisitorId(), where u is what generateUUID() returns if it is called:
\* the visitor afterwards, the value returned or the error thrown, and the
\* calls of localStorage made
GetVisitorId(v, u) ==
  IF Truthy(v.customVisitorId)
  THEN [v |-> v, result |-> [ok |-> TRUE, value |-> v.customVisitorId], events |-> <<>>]
  ELSE CASE v.env = "ssr" ->
              [v |-> v, result |-> [ok |-> TRUE, value |-> Str(u)], events |-> <<>>]
         [] v.env = "denied" ->
              [v |-> v, result |-> [ok |-> FALSE, value |-> SecurityError], events |-> <<>>]
         [] v.env \in {"ok", "full"} /\ Truthy(v.stored) ->
              [v |-> v, result |-> [ok |-> TRUE, value |-> v.stored],
               events |-> <<[e |-> "getItem", value |-> v.stored]>>]
         [] v.env = "ok" /\ ~Truthy(v.stored) ->
              [v |-> [v EXCEPT !.stored = Str(u)],
               result |-> [ok |-> TRUE, value |-> Str(u)],
               events |-> <<[e |-> "getItem", value |-> v.stored],
                            [e |-> "setItem", value |-> Str(u)]>>]
         [] v.env = "full" /\ ~Truthy(v.stored) ->
              [v |-> v, result |-> [ok |-> FALSE, value |-> QuotaExceededError],
               events |-> <<[e |-> "getItem", value |-> v.stored]>>]

SetVisitorId(id) ==
  /\ visitor' = SetVisitorIdCall(visitor, id)
  /\ log' = <<[e |-> "call", op |-> "setVisitorId", id |-> id],
              [e |-> "return", op |-> "setVisitorId", value |-> Undefined]>>
  /\ UNCHANGED <<kind, config, document, state, listeners, script, last, unsubs, inflight,
                 held, other, timer, kept>>

GetVisitorIdStep ==
  \E u \in UUIDs :
    LET got == GetVisitorId(visitor, u)
    IN /\ visitor' = got.v
       /\ log' = <<[e |-> "call", op |-> "getVisitorId"]>> \o got.events
                   \o <<[e |-> IF got.result.ok THEN "return" ELSE "throw",
                         op |-> "getVisitorId", value |-> got.result.value]>>
       /\ UNCHANGED <<kind, config, document, state, listeners, script, last, unsubs,
                      inflight, held, other, timer, kept>>

\* getHeaders(siteKey): the visitor id of the headers of a request is what
\* getVisitorId() returns, or a new UUID if it throws
GetHeaders ==
  \E u \in UUIDs, fallback \in UUIDs :
    LET got == GetVisitorId(visitor, u)
    IN /\ visitor' = got.v
       /\ log' = <<[e |-> "call", op |-> "getHeaders"]>> \o got.events
                   \o <<[e |-> "return", op |-> "getHeaders",
                         value |-> IF got.result.ok THEN got.result.value
                                   ELSE Str(fallback)]>>
       /\ UNCHANGED <<kind, config, document, state, listeners, script, last, unsubs,
                      inflight, held, other, timer, kept>>

\* ------------------------------------------------------------ API layer
\* The method of each class that sets Loading, and the methods that do not.
MainOp(k) == IF k = "waitlist" THEN "join" ELSE IF k \in SubmitKinds THEN "submit" ELSE "fetch"
MainOps == {"submit", "join", "fetch"}

Messages == {"m1", "m2"}

\* What the HTTP exchange of one request can end in: a 2xx response with a
\* decoded body, a non-2xx response (the API function throws an Error), or
\* a rejection with a value that is no Error.  Without a site key there is
\* no exchange: the API function has thrown.
Arr(items) == [tag |-> "array", items |-> items]
\* a poll as the server sends it
PollObject(results, total, userVotes) ==
  [tag |-> "object", id |-> 1, question |-> "q", isActive |-> TRUE,
   results |-> results, totalVotes |-> total, userVotes |-> userVotes]
Announcement(id) == [id |-> id, content |-> "text", isDismissible |-> TRUE]

ReactionTypes == {"like"}
AnnouncementIds == {1, 2}
Selections == {<<"a">>, <<"a", "b">>}

Bodies(k, op) ==
  CASE k \in {"subscribe", "form", "feedback"} ->
         {[success |-> TRUE, message |-> msg] : msg \in Messages}
    [] k = "waitlist" ->
         {[success |-> TRUE, message |-> "m1", position |-> Undefined],
          [success |-> TRUE, message |-> "m2", position |-> Num(3)]}
    [] k = "reactions" /\ op = "fetch" ->
         {[reaction_counts_with_user |->
             [pageId |-> "page", counts |-> EmptyMap, userReactions |-> Undefined]],
          [reaction_counts_with_user |->
             [pageId |-> "page", counts |-> ("like" :> 2),
              userReactions |-> Arr(<<"like">>)]]}
    [] k = "reactions" /\ op \in {"add", "remove"} ->
         {[reaction |-> [reactionType |-> "like", count |-> c]] : c \in {0, 1}}
    [] k = "comments" /\ op = "fetch" ->
         {[comment_threads |-> Undefined], [comment_threads |-> Arr(<<"c1">>)],
          [comment_threads |-> Arr(<<"c1", "c2">>)]}
    [] k = "comments" /\ op = "post" ->
         {[comment |-> "c2"]}
    [] k = "poll" /\ op = "fetch" ->
         {[poll_with_results |-> PollObject(("a" :> 0) @@ ("b" :> 0), 0, Undefined)],
          [poll_with_results |-> PollObject(("a" :> 1) @@ ("b" :> 0), 1, Arr(<<"a">>))]}
    [] k = "poll" /\ op = "vote" ->
         {[vote_response |->
             [success |-> TRUE, results |-> ("a" :> 1) @@ ("b" :> 1), totalVotes |-> 2]]}
    [] k = "announcements" /\ op = "fetch" ->
         {[announcements |-> Undefined],
          [announcements |-> Arr(<<Announcement(1), Announcement(2)>>)]}
    [] k = "announcements" /\ op = "dismiss" ->
         {[ok |-> TRUE]}
    [] k = "viewcounts" /\ op = "fetch" ->
         {[page_view_counts |-> [pageId |-> "page", views |-> 1, uniqueVisitors |-> 1]]}
    [] k = "viewcounts" /\ op = "record" ->
         {[record_view_response |->
             [pageId |-> "page", views |-> 2, uniqueVisitors |-> u, isNewVisitor |-> u = 2]] :
            u \in {1, 2}}

Rejections == {Str("boom"), Num(7)}

HttpResults(k, op) ==
  {[t |-> "ok", body |-> b] : b \in Bodies(k, op)}
    \cup {[t |-> "status"]}
    \cup {[t |-> "reject", value |-> v] : v \in Rejections}

\* the message of the Error an API function throws on !response.ok, with
\* response.statusText = "Bad Request"
FailureMessage(k, op) ==
  CASE k = "subscribe" -> "Subscription failed: Bad Request"
    [] k = "waitlist" -> "Failed to join waitlist: Bad Request"
    [] k = "form" -> "Form submission failed: Bad Request"
    [] k = "feedback" -> "Failed to submit feedback: Bad Request"
    [] k = "reactions" /\ op = "fetch" -> "Failed to fetch reactions: Bad Request"
    [] k = "reactions" /\ op = "add" -> "Failed to add reaction: Bad Request"
    [] k = "reactions" /\ op = "remove" -> "Failed to remove reaction: Bad Request"
    [] k = "comments" /\ op = "fetch" -> "Failed to fetch comments: Bad Request"
    [] k = "comments" /\ op = "post" -> "Failed to post comment: Bad Request"
    [] k = "poll" /\ op = "fetch" -> "Failed to fetch poll: Bad Request"
    [] k = "poll" /\ op = "vote" -> "Failed to vote: Bad Request"
    [] k = "announcements" /\ op = "fetch" -> "Failed to fetch announcements: Bad Request"
    [] k = "announcements" /\ op = "dismiss" -> "Failed to dismiss announcement: Bad Request"
    [] k = "viewcounts" /\ op = "fetch" -> "Failed to get view counts: Bad Request"
    [] k = "viewcounts" /\ op = "record" -> "Failed to record view: Bad Request"

\* what an API function returns from a decoded 2xx body
Unwrap(k, op, body) ==
  CASE k \in SubmitKinds -> body
    [] k = "reactions" /\ op = "fetch" ->
         [body.reaction_counts_with_user EXCEPT !.userReactions = OrEmpty(@)]
    [] k = "reactions" /\ op \in {"add", "remove"} -> body.reaction
    [] k = "comments" /\ op = "fetch" -> OrEmpty(body.comment_threads)
    [] k = "comments" /\ op = "post" -> body.comment
    [] k = "poll" /\ op = "fetch" -> body.poll_with_results
    [] k = "poll" /\ op = "vote" -> body.vote_response
    [] k = "announcements" /\ op = "fetch" -> OrEmpty(body.announcements)
    [] k = "announcements" /\ op = "dismiss" -> Undefined
    [] k = "viewcounts" /\ op = "fetch" -> body.page_view_counts
    [] k = "viewcounts" /\ op = "record" -> body.record_view_response

\* the API function: what its promise settles with
ApiOutcome(k, op, http) ==
  CASE http.t = "ok" -> [ok |-> TRUE, value |-> Unwrap(k, op, http.body)]
    [] http.t = "status" -> [ok |-> FALSE, value |-> Err(FailureMessage(k, op))]
    [] http.t = "reject" -> [ok |-> FALSE, value |-> http.value]
    [] http.t = "thrown" -> [ok |-> FALSE, value |-> http.value]

\* --------------------------------------------------------------- requests
\* A request in flight carries its method and two history flags:
\*   overtaken   a request issued after this one has already settled
\*   disturbed   since the last call that set Loading, reset() ran or a
\*               request of a Loading-setting method settled
MarkDisturbed(fl, d) == [i \in DOMAIN fl |-> [fl[i] EXCEPT !.disturbed = d]]

\* what the constructor at second t leaves: FormController keeps
\* Math.floor(Date.now() / 1000) as loadTime
Constructed(t) == [now |-> t, loadTime |-> t]

\* the second the instance is constructed in; the clock is past the first
\* second of 1970, so Math.floor(Date.now() / 1000) is never 0
FirstTime == 1

\* _seriph_ts of submitForm(): formLoadTime || Math.floor(Date.now() / 1000)
SeriphTs(formLoadTime, now) == IF formLoadTime # 0 THEN formLoadTime ELSE now

\* what the request of an API function carries besides its body: submitForm()
\* sends _seriph_ts
Sent(m, op, more) ==
  IF op = "submit" /\ kind = "form" THEN SeriphTs(more.formLoadTime, m.tm.now) ELSE Null

\* an API function that sends its request before it asks for the site key
IssueRequestBeforeKey(m, op, more) ==
  LET siteKey == GetSiteKey(config, document)
      req == [op |-> op, overtaken |-> FALSE, disturbed |-> FALSE, more |-> more,
              thrown |-> IF siteKey.ok THEN Null ELSE siteKey.value]
      fl0 == IF op \in MainOps THEN MarkDisturbed(m.fl, FALSE) ELSE m.fl
  IN [m EXCEPT !.fl = Append(fl0, req),
               !.log = @ \o <<[e |-> "request", op |-> op, status |-> m.st.status,
                               ts |-> Sent(m, op, more)],
                              [e |-> "await", op |-> op]>>]

\* the API function is called and the method awaits its promise: with a site
\* key the request goes out; without one getSiteKey() has thrown before the
\* request, and the promise is rejected with `thrown`; with an exception
\* under way the call is not reached
Issue(m, op, more) ==
  LET siteKey == GetSiteKey(config, document)
      req == [op |-> op, overtaken |-> FALSE, disturbed |-> FALSE, more |-> more,
              thrown |-> IF siteKey.ok THEN Null ELSE siteKey.value]
      fl0 == IF op \in MainOps THEN MarkDisturbed(m.fl, FALSE) ELSE m.fl
  IN IF m.exc # Null
     THEN m
     ELSE
     [m EXCEPT !.fl = Append(fl0, req),
               !.log = @ \o (IF siteKey.ok
                             THEN <<[e |-> "request", op |-> op, status |-> m.st.status,
                                     ts |-> Sent(m, op, more)]>>
                             ELSE <<>>)
                         \o <<[e |-> "await", op |-> op]>>]

\* what the call of the API function for req can end in: the throw of
\* getSiteKey(), or one of the ends of the HTTP exchange
Outcomes(k, req) ==
  IF req.thrown # Null
  THEN {[t |-> "thrown", value |-> req.thrown]}
  ELSE HttpResults(k, req.op)

\* inflight without its i-th request, which settles
Remaining(fl, i) ==
  LET rest == [j \in 1..(Len(fl) - 1) |->
                 IF j < i THEN [fl[j] EXCEPT !.overtaken = TRUE] ELSE fl[j + 1]]
  IN IF fl[i].op \in MainOps THEN MarkDisturbed(rest, TRUE) ELSE rest

Settled(i, out) ==
  [Begin([e |-> "settle", op |-> inflight[i].op, ok |-> out.ok, value |-> out.value,
          overtaken |-> inflight[i].overtaken, more |-> inflight[i].more])
     EXCEPT !.fl = Remaining(inflight, i)]

\* return v, which an exception under way does not reach
Return(m, op, v) ==
  IF m.exc # Null THEN m ELSE Emit(m, [e |-> "return", op |-> op, value |-> v])

\* throw v at the end of a catch block, which an exception thrown inside the
\* block does not reach: the method ends with that exception
Throw(m, op, v) ==
  Emit(Caught(m), [e |-> "throw", op |-> op, value |-> IF m.exc # Null THEN m.exc ELSE v])

\* the end of a method: an exception nothing has caught leaves it, as the
\* rejection of its promise where the method is async
Exit(m, op) == IF m.exc # Null THEN Throw(m, op, m.exc) ELSE m

\* ------------------------------------------- subscribe() and unsubscribe
Subscribe(l) ==
  Commit(Exit(SubscribeCall(Begin([e |-> "call", op |-> "subscribe", l |-> l]), l),
              "subscribe"))

Unsubscribe(l) ==
  /\ l \in unsubs
  /\ Commit(UnsubscribeCall(Begin([e |-> "call", op |-> "unsubscribe", l |-> l,
                                     before |-> listeners]), l))

\* the caller subscribes l and keeps the function subscribe() returned
SubscribeKeep(l) ==
  /\ Len(kept) < MaxKept
  /\ LET m == Exit(SubscribeCall(Begin([e |-> "call", op |-> "subscribe", l |-> l]), l),
                   "subscribe")
     IN Commit([m EXCEPT !.kept = Append(@, [listener |-> l,
                                             again |-> Has(listeners, l)])])

\* the caller calls the n-th of the functions it keeps
CallKept(n) ==
  /\ n \in DOMAIN kept
  /\ Commit(UnsubscribeCall(Begin([e |-> "call", op |-> "unsubscribe",
                                   l |-> kept[n].listener, before |-> listeners,
                                   closure |-> n]),
                            kept[n].listener))

\* ------------------------------ Subscribe, Waitlist, Form, Feedback
LoadingState(k) ==
  IF k = "waitlist"
  THEN [status |-> "loading", message |-> Null, position |-> Null, error |-> Null]
  ELSE [status |-> "loading", message |-> Null, error |-> Null]

\* result.position ?? null
Coalesce(v) == IF v.tag \in {"null", "undefined"} THEN Null ELSE v

SuccessState(k, result) ==
  IF k = "waitlist"
  THEN [status |-> "success", message |-> Str(result.message),
        position |-> Coalesce(result.position), error |-> Null]
  ELSE [status |-> "success", message |-> Str(result.message), error |-> Null]

ErrorState(k, error) ==
  IF k = "waitlist"
  THEN [status |-> "error", message |-> Str(error.message), position |-> Null,
        error |-> error]
  ELSE [status |-> "error", message |-> Str(error.message), error |-> error]

\* the options submit() / join() adds to the config for the API function:
\* FormController passes formLoadTime: this.loadTime
Options(m, k) == IF k = "form" THEN [formLoadTime |-> m.tm.loadTime] ELSE Null

\* submit() / join() that calls the API function before it sets Loading
SubmitCallRequestFirst(m, k) ==
  Notify(SetState(Issue(m, MainOp(k), Options(m, k)), LoadingState(k), {}))

\* FormController.submit() that takes a new loadTime before it sends
SubmitCallNewLoadTime(m, k) ==
  LET m1 == [m EXCEPT !.tm.loadTime = m.tm.now]
  IN Issue(Notify(SetState(m1, LoadingState(k), {})), MainOp(k), Options(m1, k))

\* submit() / join() up to the await
SubmitCall(m, k) ==
  Exit(Issue(Notify(SetState(m, LoadingState(k), {})), MainOp(k), Options(m, k)),
       MainOp(k))

Submit ==
  /\ kind \in SubmitKinds
  /\ Len(inflight) < MaxInFlight
  /\ Commit(SubmitCall(Begin([e |-> "call", op |-> MainOp(kind)]), kind))

\* submit() / join() that drops the response of a call a later call overtook
SubmitSettleFirstWins(m, k, out) ==
  IF m.log[1].overtaken
  THEN IF out.ok THEN Return(m, MainOp(k), out.value)
                 ELSE Throw(m, MainOp(k), NormalizeError(out.value))
  ELSE IF out.ok
       THEN Return(Notify(SetState(m, SuccessState(k, out.value), {})), MainOp(k),
                   out.value)
       ELSE Throw(Notify(SetState(m, ErrorState(k, NormalizeError(out.value)), {})),
                  MainOp(k), NormalizeError(out.value))

\* submit() / join() with the notify() of success after the try statement
SubmitSettleNotifyOutside(m, k, out) ==
  IF out.ok
  THEN Exit(Return(Notify(SetState(m, SuccessState(k, out.value), {})), MainOp(k),
                   out.value),
            MainOp(k))
  ELSE LET error == NormalizeError(out.value)
       IN Throw(Notify(SetState(m, ErrorState(k, error), {})), MainOp(k), error)

\* submit() / join() after the await: the try body or the catch block
SubmitSettle(m, k, out) ==
  LET try == IF out.ok THEN Notify(SetState(m, SuccessState(k, out.value), {})) ELSE m
  IN IF out.ok /\ try.exc = Null
     THEN Return(try, MainOp(k), out.value)
     ELSE LET error == NormalizeError(IF out.ok THEN try.exc ELSE out.value)
          IN Throw(Notify(SetState(Caught(try), ErrorState(k, error), {})), MainOp(k),
                   error)

SettleSubmit(i) ==
  /\ kind \in SubmitKinds
  /\ i \in DOMAIN inflight
  /\ \E http \in Outcomes(kind, inflight[i]) :
       LET out == ApiOutcome(kind, inflight[i].op, http)
       IN Commit(SubmitSettle(Settled(i, out), kind, out))

\* reset() that also drops the requests in flight
ResetCallCancels(m, k) ==
  LET m1 == SetState(m, InitialState(k), {})
  IN Return(Notify([m1 EXCEPT !.fl = <<>>]), "reset", Undefined)

\* reset() that sets the status and keeps the rest of the state
ResetCallKeepsMessage(m, k) ==
  LET m1 == SetState(m, [m.st EXCEPT !.status = "idle"], {})
  IN Return(Notify([m1 EXCEPT !.fl = MarkDisturbed(@, TRUE)]), "reset", Undefined)

\* reset() that does not call notify()
ResetCallSilent(m, k) ==
  LET m1 == SetState(m, InitialState(k), {})
  IN Return([m1 EXCEPT !.fl = MarkDisturbed(@, TRUE)], "reset", Undefined)

\* this.loadTime = Math.floor(Date.now() / 1000) of FormController.reset()
NewLoadTime(m, k) == IF k = "form" THEN [m EXCEPT !.tm.loadTime = m.tm.now] ELSE m

\* reset()
ResetCall(m, k) ==
  LET m1 == NewLoadTime(SetState(m, InitialState(k), {}), k)
  IN Exit(Return(Notify([m1 EXCEPT !.fl = MarkDisturbed(@, TRUE)]), "reset", Undefined),
          "reset")

\* a second passes
Tick ==
  /\ timer.now < MaxTime
  /\ timer' = [timer EXCEPT !.now = @ + 1]
  /\ log' = <<[e |-> "tick"]>>
  /\ UNCHANGED <<kind, config, document, state, listeners, script, last, unsubs, inflight,
                 held, other, visitor, kept>>

Reset ==
  /\ kind \in SubmitKinds
  /\ Commit(ResetCall(Begin([e |-> "call", op |-> "reset"]), kind))

\* ------------------------------------------------- property writes
\* this._state.f = v with v a new object: a held snapshot keeps the old one
Assign(m, f, v) ==
  [m EXCEPT !.st = [@ EXCEPT ![f] = v],
            !.held = [i \in DOMAIN m.held |-> [m.held[i] EXCEPT !.aliases = @ \ {f}]],
            !.peer.shared = @ \ {f},
            !.log = Append(@, [e |-> "patch", field |-> f])]

\* a write into the container this._state.f itself: every holder of that
\* object sees it
InPlace(m, f, v) ==
  [m EXCEPT !.st = [@ EXCEPT ![f] = v],
            !.held = [i \in DOMAIN m.held |->
                        IF f \in m.held[i].aliases
                        THEN [m.held[i] EXCEPT !.snap = [@ EXCEPT ![f] = v]]
                        ELSE m.held[i]],
            !.peer = IF f \in m.peer.shared THEN [@ EXCEPT !.state[f] = v] ELSE @,
            !.log = Append(@, [e |-> "patch", field |-> f])]

\* ---------------- Reactions, Comments, Poll, Announcements, ViewCounts
\* fetch() that calls the API function before it sets Loading
FetchCallRequestFirst(m, more) ==
  LET m1 == Issue(m, "fetch", more)
  IN Exit(Notify(SetState(m1, [m1.st EXCEPT !.status = "loading", !.error = Null], {})),
          "fetch")

\* fetch() up to the await
FetchCall(m, more) ==
  Exit(Issue(Notify(SetState(m, [m.st EXCEPT !.status = "loading", !.error = Null], {})),
             "fetch", more),
       "fetch")

Fetch ==
  /\ kind \in FetchKinds
  /\ Len(inflight) < MaxInFlight
  /\ Commit(FetchCall(Begin([e |-> "call", op |-> "fetch"]), Null))

\* a fetch() of announcements that assigns a new state with an empty
\* dismissed set, as the fetch() of comments assigns a state without spread
FetchSuccessStateFresh(k, s, result) ==
  CASE k = "reactions" ->
         [s EXCEPT !.counts = result.counts, !.userReactions = result.userReactions,
                   !.status = "success", !.error = Null]
    [] k = "comments" -> [comments |-> result, status |-> "success", error |-> Null]
    [] k = "poll" -> [poll |-> result, status |-> "success", error |-> Null]
    [] k = "announcements" ->
         [announcements |-> result, dismissed |-> {}, status |-> "success", error |-> Null]
    [] k = "viewcounts" ->
         [s EXCEPT !.views = result.views, !.uniqueVisitors = result.uniqueVisitors,
                   !.status = "success", !.error = Null]

\* a fetch() of reactions that merges the counts of the response into the
\* counts it has and keeps the types it has
FetchSuccessStateMerge(k, s, result) ==
  CASE k = "reactions" ->
         [s EXCEPT !.counts = result.counts @@ s.counts,
                   !.userReactions =
                      result.userReactions
                        \o SelectSeq(s.userReactions,
                                     LAMBDA r : ~Has(result.userReactions, r)),
                   !.status = "success", !.error = Null]
    [] k = "comments" -> [comments |-> result, status |-> "success", error |-> Null]
    [] k = "poll" -> [poll |-> result, status |-> "success", error |-> Null]
    [] k = "announcements" ->
         [s EXCEPT !.announcements = result, !.status = "success", !.error = Null]
    [] k = "viewcounts" ->
         [s EXCEPT !.views = result.views, !.uniqueVisitors = result.uniqueVisitors,
                   !.status = "success", !.error = Null]

\* the state fetch() assigns in its try body
FetchSuccessState(k, s, result) ==
  CASE k = "reactions" ->
         [s EXCEPT !.counts = result.counts, !.userReactions = result.userReactions,
                   !.status = "success", !.error = Null]
    [] k = "comments" -> [comments |-> result, status |-> "success", error |-> Null]
    [] k = "poll" -> [poll |-> result, status |-> "success", error |-> Null]
    [] k = "announcements" ->
         [s EXCEPT !.announcements = result, !.status = "success", !.error = Null]
    [] k = "viewcounts" ->
         [s EXCEPT !.views = result.views, !.uniqueVisitors = result.uniqueVisitors,
                   !.status = "success", !.error = Null]

\* the nested containers that assignment replaces by objects of the response
FetchReplaced(k) ==
  CASE k = "reactions" -> {"counts", "userReactions"}
    [] k = "comments" -> {"comments"}
    [] k = "poll" -> {"poll"}
    [] k = "announcements" -> {"announcements"}
    [] k = "viewcounts" -> {}

\* a catch block of fetch() that sends the request once more
FetchCatchRetry(m, e) == Issue(m, "fetch", Null)

\* a catch block of fetch() that goes back to the initial payload
FetchCatchClearsPayload(m, e) ==
  LET error == NormalizeError(e)
  IN Throw(Notify(SetState(m, [InitialState(kind) EXCEPT !.status = "error",
                                                        !.error = error],
                           FetchReplaced(kind))),
           "fetch", error)

\* a catch block of fetch() that stores the error and leaves the status
FetchCatchKeepsStatus(m, e) ==
  LET error == NormalizeError(e)
  IN Throw(Notify(SetState(m, [m.st EXCEPT !.error = error], {})), "fetch", error)

\* the catch block of every fetch()
FetchCatch(m, e) ==
  LET error == NormalizeError(e)
  IN Throw(Notify(SetState(m, [m.st EXCEPT !.status = "error", !.error = error], {})),
           "fetch", error)

\* fetch() after the await: the try body, and the catch block for what the
\* await or the try body threw
FetchSettle(m, k, out) ==
  IF out.ok
  THEN LET m1 == Notify(SetState(m, FetchSuccessState(k, m.st, out.value),
                                 FetchReplaced(k)))
       IN IF m1.exc # Null
          THEN FetchCatch(Caught(m1), m1.exc)
          ELSE Return(m1, "fetch",
                      IF k = "reactions" THEN GetState(k, m1.st).snap ELSE out.value)
  ELSE FetchCatch(m, out.value)

\* that catch block written like the one of fetch(): it sets status too
PatchCatchSetsStatus(m, op, e) ==
  Throw(Notify(SetState(m, [m.st EXCEPT !.status = "error",
                                        !.error = NormalizeError(e)], {})),
        op, NormalizeError(e))

\* the catch block of add, remove, post, vote, dismiss and record
PatchCatch(m, op, e) ==
  LET error == NormalizeError(e)
  IN Throw(Notify(SetState(m, [m.st EXCEPT !.error = error], {})), op, error)

\* a try body whose catch block first puts _state back as the call found it
PatchReturnRollsBack(m, op, v) ==
  IF m.exc # Null
  THEN PatchCatch(Caught([m EXCEPT !.st = state]), op, m.exc)
  ELSE Return(m, op, v)

\* the end of the try body of those methods, after notify(): return v, or
\* the catch block for what a listener threw
PatchReturn(m, op, v) ==
  IF m.exc # Null THEN PatchCatch(Caught(m), op, m.exc) ELSE Return(m, op, v)

\* add() that appends the type without looking whether it is there
AddSettleNoDedupe(m, reactionType, out) ==
  IF out.ok
  THEN LET m1 == InPlace(m, "counts", (reactionType :> out.value.count) @@ m.st.counts)
           m2 == Assign(m1, "userReactions", Append(m1.st.userReactions, reactionType))
       IN Return(Notify(m2), "add", Undefined)
  ELSE PatchCatch(m, "add", out.value)

\* add() that marks success when its request succeeded
AddSettleMarksSuccess(m, reactionType, out) ==
  IF out.ok
  THEN LET m1 == InPlace(m, "counts", (reactionType :> out.value.count) @@ m.st.counts)
           m2 == IF Has(m1.st.userReactions, reactionType)
                 THEN m1
                 ELSE Assign(m1, "userReactions", Append(m1.st.userReactions, reactionType))
       IN Return(Notify(SetState(m2, [m2.st EXCEPT !.status = "success"], {})), "add",
                 Undefined)
  ELSE PatchCatch(m, "add", out.value)

\* ReactionsController.add(reactionType) after the await
AddSettle(m, reactionType, out) ==
  IF out.ok
  THEN LET m1 == InPlace(m, "counts", (reactionType :> out.value.count) @@ m.st.counts)
           m2 == IF Has(m1.st.userReactions, reactionType)
                 THEN m1
                 ELSE Assign(m1, "userReactions", Append(m1.st.userReactions, reactionType))
       IN PatchReturn(Notify(m2), "add", Undefined)
  ELSE PatchCatch(m, "add", out.value)

\* remove() that takes the type out of userReactions also when it failed
RemoveSettleAlways(m, reactionType, out) ==
  LET m0 == Assign(m, "userReactions",
                   SelectSeq(m.st.userReactions, LAMBDA r : r # reactionType))
  IN IF out.ok
     THEN Return(Notify(InPlace(m0, "counts",
                                (reactionType :> out.value.count) @@ m0.st.counts)),
                 "remove", Undefined)
     ELSE PatchCatch(m0, "remove", out.value)

\* ReactionsController.remove(reactionType) after the await
RemoveSettle(m, reactionType, out) ==
  IF out.ok
  THEN LET m1 == InPlace(m, "counts", (reactionType :> out.value.count) @@ m.st.counts)
           m2 == Assign(m1, "userReactions",
                        SelectSeq(m1.st.userReactions, LAMBDA r : r # reactionType))
       IN PatchReturn(Notify(m2), "remove", Undefined)
  ELSE PatchCatch(m, "remove", out.value)

\* post() that puts the new comment into the list itself and does not fetch
PostSettleLocalInsert(m, out) ==
  IF out.ok
  THEN Return(Notify(Assign(m, "comments", Append(m.st.comments, out.value))), "post",
              out.value)
  ELSE PatchCatch(m, "post", out.value)

\* what the method call that ended last in the segment threw, Null where it
\* returned or awaits
Rejected(m) ==
  LET end == m.log[Len(m.log)] IN IF end.e = "throw" THEN end.value ELSE Null

\* CommentsController.post() after postComment settled: it awaits fetch(),
\* and its catch block takes what fetch() rejects with
PostSettle(m, out) ==
  IF out.ok
  THEN LET m1 == FetchCall(m, [parent |-> "post", comment |-> out.value,
                               before |-> m.log[1].more.before])
       IN IF Rejected(m1) # Null THEN PatchCatch(m1, "post", Rejected(m1)) ELSE m1
  ELSE PatchCatch(m, "post", out.value)

\* a post() whose catch block puts back the status the call had found
PostResumeRestoresStatus(m, comment, out) ==
  IF out.ok
  THEN Return(m, "post", comment)
  ELSE LET error == NormalizeError(out.value)
       IN Throw(Notify(SetState(m, [m.st EXCEPT !.error = error,
                                                !.status = m.log[1].more.before], {})),
                "post", error)

\* CommentsController.post() after its fetch() settled
PostResume(m, comment, out) ==
  IF Rejected(m) = Null
  THEN Return(m, "post", comment)
  ELSE PatchCatch(m, "post", Rejected(m))

\* vote() that merges the response without looking whether a poll is loaded
VoteSettleMergeAlways(m, selectedOptions, out) ==
  IF out.ok
  THEN LET m1 == Assign(m, "poll",
                        [tag |-> "object", results |-> out.value.results,
                         totalVotes |-> out.value.totalVotes,
                         userVotes |-> Arr(selectedOptions)])
       IN Return(Notify(m1), "vote", out.value)
  ELSE PatchCatch(m, "vote", out.value)

\* vote() that marks success as fetch() does
VoteSettleMarksSuccess(m, selectedOptions, out) ==
  IF out.ok
  THEN LET m1 == IF m.st.poll # Null
                 THEN Assign(m, "poll",
                             [m.st.poll EXCEPT !.results = out.value.results,
                                               !.totalVotes = out.value.totalVotes,
                                               !.userVotes = Arr(selectedOptions)])
                 ELSE m
       IN Return(Notify(SetState(m1, [m1.st EXCEPT !.status = "success", !.error = Null],
                                 {})),
                 "vote", out.value)
  ELSE PatchCatch(m, "vote", out.value)

\* PollController.vote(selectedOptions) after the await
VoteSettle(m, selectedOptions, out) ==
  IF out.ok
  THEN LET m1 == IF m.st.poll # Null
                 THEN Assign(m, "poll",
                             [m.st.poll EXCEPT !.results = out.value.results,
                                               !.totalVotes = out.value.totalVotes,
                                               !.userVotes = Arr(selectedOptions)])
                 ELSE m
       IN PatchReturn(Notify(m1), "vote", out.value)
  ELSE PatchCatch(m, "vote", out.value)

\* AnnouncementsController.getVisibleAnnouncements()
GetVisibleAnnouncements(s) ==
  SelectSeq(s.announcements, LAMBDA a : a.id \notin s.dismissed)

\* dismiss() that adds the id whether the remote call succeeded or not
DismissSettleAddsAnyway(m, announcementId, out) ==
  IF out.ok
  THEN Return(Notify(InPlace(m, "dismissed", m.st.dismissed \cup {announcementId})),
              "dismiss", Undefined)
  ELSE PatchCatch(InPlace(m, "dismissed", m.st.dismissed \cup {announcementId}),
                  "dismiss", out.value)

\* dismiss() that takes the id out again when it is in the set already
DismissSettleToggles(m, announcementId, out) ==
  IF out.ok
  THEN Return(Notify(InPlace(m, "dismissed",
                             IF announcementId \in m.st.dismissed
                             THEN m.st.dismissed \ {announcementId}
                             ELSE m.st.dismissed \cup {announcementId})),
              "dismiss", Undefined)
  ELSE PatchCatch(m, "dismiss", out.value)

\* AnnouncementsController.dismiss(announcementId) after the await
DismissSettle(m, announcementId, out) ==
  IF out.ok
  THEN PatchReturn(Notify(InPlace(m, "dismissed", m.st.dismissed \cup {announcementId})),
                   "dismiss", Undefined)
  ELSE PatchCatch(m, "dismiss", out.value)

\* record() that marks success as fetch() does
RecordSettleMarksSuccess(m, out) ==
  IF out.ok
  THEN Return(Notify(SetState(m, [m.st EXCEPT !.views = out.value.views,
                                             !.uniqueVisitors = out.value.uniqueVisitors,
                                             !.status = "success", !.error = Null],
                              {})),
              "record", out.value)
  ELSE Throw(Notify(SetState(m, [m.st EXCEPT !.error = NormalizeError(out.value)], {})),
             "record", NormalizeError(out.value))

\* record() that clears the error when its request succeeded
RecordSettleClearsError(m, out) ==
  IF out.ok
  THEN Return(Notify(SetState(m, [m.st EXCEPT !.views = out.value.views,
                                             !.uniqueVisitors = out.value.uniqueVisitors,
                                             !.error = Null],
                              {})),
              "record", out.value)
  ELSE PatchCatch(m, "record", out.value)

\* ViewCountsController.record() after the await
RecordSettle(m, out) ==
  IF out.ok
  THEN PatchReturn(Notify(SetState(m, [m.st EXCEPT !.views = out.value.views,
                                                  !.uniqueVisitors =
                                                     out.value.uniqueVisitors],
                                   {})),
                   "record", out.value)
  ELSE PatchCatch(m, "record", out.value)

\* what a request in flight remembers of its call: the argument, and for
\* post() the status the call found
More(op, arg, s) == IF op = "post" THEN [before |-> s.status] ELSE arg

\* the methods that issue their request without touching _state
PatchOp(k) ==
  CASE k = "reactions" -> {"add", "remove"}
    [] k = "comments" -> {"post"}
    [] k = "poll" -> {"vote"}
    [] k = "announcements" -> {"dismiss"}
    [] k = "viewcounts" -> {"record"}

Arguments(op) ==
  CASE op \in {"add", "remove"} -> ReactionTypes
    [] op = "vote" -> Selections
    [] op = "dismiss" -> AnnouncementIds
    [] OTHER -> {Null}

Patch(op) ==
  /\ kind \in FetchKinds
  /\ op \in PatchOp(kind)
  /\ Len(inflight) < MaxInFlight
  /\ \E arg \in Arguments(op) :
       Commit(Issue(Begin([e |-> "call", op |-> op]), op, More(op, arg, state)))

\* the continuation of the method that awaits request req
Continue(m, k, req, out) ==
  CASE req.op = "fetch" /\ req.more = Null -> FetchSettle(m, k, out)
    [] req.op = "fetch" /\ req.more # Null ->
         PostResume(FetchSettle(m, k, out), req.more.comment, out)
    [] req.op = "add" -> AddSettle(m, req.more, out)
    [] req.op = "remove" -> RemoveSettle(m, req.more, out)
    [] req.op = "post" -> PostSettle(m, out)
    [] req.op = "vote" -> VoteSettle(m, req.more, out)
    [] req.op = "dismiss" -> DismissSettle(m, req.more, out)
    [] req.op = "record" -> RecordSettle(m, out)

Settle(i) ==
  /\ kind \in FetchKinds
  /\ i \in DOMAIN inflight
  /\ \E http \in Outcomes(kind, inflight[i]) :
       LET out == ApiOutcome(kind, inflight[i].op, http)
       IN Commit(Continue(Settled(i, out), kind, inflight[i], out))

\* ------------------------------------------- snapshots in a caller's hands
ContainerKinds == {"reactions", "comments", "poll", "announcements"}

\* PollController.hasVoted()
HasVoted(s) ==
  /\ s.poll # Null
  /\ s.poll.userVotes.tag = "array"
  /\ Len(s.poll.userVotes.items) > 0

\* a caller calls getState() and keeps what it returns
GetStateCall ==
  /\ kind \in ContainerKinds
  /\ held' = <<GetState(kind, state)>>
  /\ log' = <<[e |-> "call", op |-> "getState"],
              [e |-> "return", op |-> "getState", value |-> GetState(kind, state).snap]>>
  /\ UNCHANGED <<kind, config, document, state, listeners, script, last, unsubs, inflight,
                 other, visitor, timer, kept>>

\* the nested containers of a snapshot, by path
Containers(k, snap) ==
  CASE k = "reactions" -> {<<"counts">>, <<"userReactions">>}
    [] k = "comments" -> {<<"comments">>}
    [] k = "poll" -> IF snap.poll = Null THEN {} ELSE {<<"poll", "results">>, <<"poll", "userVotes">>}
    [] k = "announcements" -> {<<"announcements">>, <<"dismissed">>}

\* the caller changes a nested container of the snapshot it holds, adding
\* what is not yet in it; _state changes with it where the container is the
\* object _state holds
MutateHeld(c) ==
  /\ held # <<>>
  /\ c \in Containers(kind, held[1].snap)
  /\ Changed(held[1].snap, c) # held[1].snap
  /\ c = <<"poll", "userVotes">> => ~Has(OrEmpty(held[1].snap.poll.userVotes), "zz")
  /\ LET after == Changed(held[1].snap, c)
     IN /\ state' = IF c[1] \in held[1].aliases
                     THEN [state EXCEPT ![c[1]] = after[c[1]]]
                     ELSE state
        /\ log' = <<[e |-> "mutate", path |-> c, before |-> GetState(kind, state).snap,
                     votedBefore |-> kind = "poll" /\ HasVoted(state),
                     mine |-> held[1].snap, mineAfter |-> after]>>
  /\ held' = <<>>
  /\ UNCHANGED <<kind, config, document, listeners, script, last, unsubs, inflight, other,
                 visitor, timer, kept>>

\* ------------------------------------------------------ a second instance
\* where only one instance is made
NoOther == [shared |-> {}]

\* instances whose _state began as one object kept by the class
SharedAtConstructionStatic(k) == {c[1] : c \in KindPaths(k)} \ {"poll"}

\* the nested containers two new instances have in common: the field
\* initialiser of _state makes new objects for every instance
SharedAtConstruction(k) == {}

Settled2(i, out) ==
  [Begin2([e |-> "settle", op |-> other.inflight[i].op, ok |-> out.ok,
           value |-> out.value, overtaken |-> other.inflight[i].overtaken,
           more |-> other.inflight[i].more])
     EXCEPT !.fl = Remaining(other.inflight, i)]

Subscribe2(l) ==
  Commit2(Exit(SubscribeCall(Begin2([e |-> "call", op |-> "subscribe", l |-> l]), l),
               "subscribe"))

Submit2 ==
  /\ kind \in SubmitKinds
  /\ Len(other.inflight) < MaxInFlight
  /\ Commit2(SubmitCall(Begin2([e |-> "call", op |-> MainOp(kind)]), kind))

SettleSubmit2(i) ==
  /\ kind \in SubmitKinds
  /\ i \in DOMAIN other.inflight
  /\ \E http \in Outcomes(kind, other.inflight[i]) :
       LET out == ApiOutcome(kind, other.inflight[i].op, http)
       IN Commit2(SubmitSettle(Settled2(i, out), kind, out))

Fetch2 ==
  /\ kind \in FetchKinds
  /\ Len(other.inflight) < MaxInFlight
  /\ Commit2(FetchCall(Begin2([e |-> "call", op |-> "fetch"]), Null))

Settle2(i) ==
  /\ kind \in FetchKinds
  /\ i \in DOMAIN other.inflight
  /\ \E http \in Outcomes(kind, other.inflight[i]) :
       LET out == ApiOutcome(kind, other.inflight[i].op, http)
       IN Commit2(Continue(Settled2(i, out), kind, other.inflight[i], out))

\* ---------------------------------------------------------- specification
Init ==
  /\ kind \in Kinds
  /\ config = [siteKey |-> Str("sk")]
  /\ document = Undefined
  /\ state = InitialState(kind)
  /\ listeners = <<>>
  /\ script = [l \in ListenerIds |-> NoScript]
  /\ last = EmptyMap
  /\ unsubs = {}
  /\ inflight = <<>>
  /\ held = <<>>
  /\ other = NoOther
  /\ visitor = ReturningVisitor
  /\ timer = Constructed(FirstTime)
  /\ kept = <<>>
  /\ log = <<>>

Next ==
  \/ \E l \in ListenerIds : Subscribe(l)
  \/ \E l \in ListenerIds : Unsubscribe(l)
  \/ Submit
  \/ \E i \in 1..MaxInFlight : SettleSubmit(i)
  \/ Reset
  \/ Fetch
  \/ \E op \in {"add", "remove", "post", "vote", "dismiss", "record"} : Patch(op)
  \/ \E i \in 1..MaxInFlight : Settle(i)

Spec == Init /\ [][Next]_vars

\* The controllers with nested containers, with a caller that keeps and
\* changes snapshots, no listeners and one request at a time.
InitCopy ==
  /\ Init
  /\ kind \in ContainerKinds

NextCopy ==
  \/ GetStateCall
  \/ \E c \in {<<"counts">>, <<"userReactions">>, <<"comments">>, <<"announcements">>,
                <<"dismissed">>, <<"poll", "results">>, <<"poll", "userVotes">>} :
       MutateHeld(c)
  \/ inflight = <<>> /\ Fetch
  \/ \E op \in {"add", "remove", "post", "vote", "dismiss"} : inflight = <<>> /\ Patch(op)
  \/ Settle(1)

SpecCopy == InitCopy /\ [][NextCopy]_vars

\* Every config and document, with one listener and one request at a time.
InitConfig ==
  /\ kind \in Kinds
  /\ config \in Configs
  /\ document \in Documents
  /\ state = InitialState(kind)
  /\ listeners = <<>>
  /\ script = [l \in ListenerIds |-> NoScript]
  /\ last = EmptyMap
  /\ unsubs = {}
  /\ inflight = <<>>
  /\ held = <<>>
  /\ other = NoOther
  /\ visitor = ReturningVisitor
  /\ timer = Constructed(FirstTime)
  /\ kept = <<>>
  /\ log = <<>>

NextConfig ==
  \/ Subscribe(1)
  \/ Unsubscribe(1)
  \/ inflight = <<>> /\ Submit
  \/ SettleSubmit(1)
  \/ Reset
  \/ inflight = <<>> /\ Fetch
  \/ \E op \in {"add", "remove", "post", "vote", "dismiss", "record"} :
       inflight = <<>> /\ Patch(op)
  \/ Settle(1)

SpecConfig == InitConfig /\ [][NextConfig]_vars

\* Listeners of which at most one has a script, which is not to subscribe
\* itself; one request at a time.
ScriptChoices(k) ==
  {f \in [ListenerIds -> Scripts(k)] :
     /\ Cardinality({l \in ListenerIds : f[l] # NoScript}) <= 1
     /\ \A l \in ListenerIds : f[l].act = "subscribe" => f[l].t # l}

InitListeners ==
  /\ kind \in Kinds
  /\ config = [siteKey |-> Str("sk")]
  /\ document = Undefined
  /\ state = InitialState(kind)
  /\ listeners = <<>>
  /\ script \in ScriptChoices(kind)
  /\ last = EmptyMap
  /\ unsubs = {}
  /\ inflight = <<>>
  /\ held = <<>>
  /\ other = NoOther
  /\ visitor = ReturningVisitor
  /\ timer = Constructed(FirstTime)
  /\ kept = <<>>
  /\ log = <<>>

NextListeners ==
  \/ \E l \in ListenerIds : Subscribe(l)
  \/ \E l \in ListenerIds : Unsubscribe(l)
  \/ inflight = <<>> /\ Submit
  \/ SettleSubmit(1)
  \/ Reset
  \/ inflight = <<>> /\ Fetch
  \/ \E op \in {"add", "remove", "post", "vote", "dismiss", "record"} :
       inflight = <<>> /\ Patch(op)
  \/ Settle(1)

SpecListeners == InitListeners /\ [][NextListeners]_vars

\* Two instances of one class, each with one listener and one request at a
\* time; the second is subscribed to and submits, joins or fetches.
InitPair ==
  /\ kind \in Kinds
  /\ config = [siteKey |-> Str("sk")]
  /\ document = Undefined
  /\ state = InitialState(kind)
  /\ listeners = <<>>
  /\ script = [l \in ListenerIds |-> NoScript]
  /\ last = EmptyMap
  /\ unsubs = {}
  /\ inflight = <<>>
  /\ held = <<>>
  /\ other = [state |-> InitialState(kind), listeners |-> <<>>, unsubs |-> {},
              inflight |-> <<>>, last |-> EmptyMap,
              shared |-> SharedAtConstruction(kind)]
  /\ visitor = ReturningVisitor
  /\ timer = Constructed(FirstTime)
  /\ kept = <<>>
  /\ log = <<>>

NextPair ==
  \/ Subscribe(1)
  \/ Unsubscribe(1)
  \/ inflight = <<>> /\ Submit
  \/ SettleSubmit(1)
  \/ Reset
  \/ inflight = <<>> /\ Fetch
  \/ \E op \in {"add", "remove", "post", "vote", "dismiss", "record"} :
       inflight = <<>> /\ Patch(op)
  \/ Settle(1)
  \/ Subscribe2(1)
  \/ other.inflight = <<>> /\ Submit2
  \/ SettleSubmit2(1)
  \/ other.inflight = <<>> /\ Fetch2
  \/ Settle2(1)

SpecPair == InitPair /\ [][NextPair]_vars

\* The visitor id on its own: an environment, with or without an id stored by
\* an earlier visit, in which setVisitorId(), getVisitorId() and the
\* getHeaders() of requests are called in any order.
InitVisitor ==
  /\ kind = "viewcounts"
  /\ config = [siteKey |-> Str("sk")]
  /\ document = Undefined
  /\ state = InitialState(kind)
  /\ listeners = <<>>
  /\ script = [l \in ListenerIds |-> NoScript]
  /\ last = EmptyMap
  /\ unsubs = {}
  /\ inflight = <<>>
  /\ held = <<>>
  /\ other = NoOther
  /\ \E env \in Environments :
       \E stored \in IF env \in {"ok", "full"} THEN {Null} \cup {Str(u) : u \in UUIDs}
                     ELSE {Null} :
         visitor = [env |-> env, customVisitorId |-> Null, stored |-> stored]
  /\ timer = Constructed(FirstTime)
  /\ kept = <<>>
  /\ log = <<>>

NextVisitor ==
  \/ \E id \in VisitorIds : SetVisitorId(id)
  \/ GetVisitorIdStep
  \/ GetHeaders

SpecVisitor == InitVisitor /\ [][NextVisitor]_vars

\* A FormController with one listener, while the clock runs.
InitForm ==
  /\ Init
  /\ kind = "form"

NextForm ==
  \/ Subscribe(1)
  \/ Submit
  \/ \E i \in 1..MaxInFlight : SettleSubmit(i)
  \/ Reset
  \/ Tick

SpecForm == InitForm /\ [][NextForm]_vars

\* Every class with two listeners, of which the first has a callback that
\* may throw and is subscribed before or after the other, and one request at
\* a time.
InitThrow ==
  /\ kind \in Kinds
  /\ config = [siteKey |-> Str("sk")]
  /\ document = Undefined
  /\ state = InitialState(kind)
  /\ listeners = <<>>
  /\ script \in {f \in [ListenerIds -> {NoScript} \cup ThrowScripts] :
                   \A l \in ListenerIds \ {1} : f[l] = NoScript}
  /\ last = EmptyMap
  /\ unsubs = {}
  /\ inflight = <<>>
  /\ held = <<>>
  /\ other = NoOther
  /\ visitor = ReturningVisitor
  /\ timer = Constructed(FirstTime)
  /\ kept = <<>>
  /\ log = <<>>

NextThrow ==
  \/ \E l \in ListenerIds : Subscribe(l)
  \/ \E l \in ListenerIds : Unsubscribe(l)
  \/ inflight = <<>> /\ Submit
  \/ SettleSubmit(1)
  \/ Reset
  \/ inflight = <<>> /\ Fetch
  \/ \E op \in {"add", "remove", "post", "vote", "dismiss", "record"} :
       inflight = <<>> /\ Patch(op)
  \/ Settle(1)

SpecThrow == InitThrow /\ [][NextThrow]_vars

\* Every class with one listener, constructed in the last second before
\* MaxTime and called until the clock reaches MaxTime, where time passes and
\* a request in flight settles in the end.
InitFair ==
  /\ kind \in Kinds
  /\ config = [siteKey |-> Str("sk")]
  /\ document = Undefined
  /\ state = InitialState(kind)
  /\ listeners = <<>>
  /\ script = [l \in ListenerIds |-> NoScript]
  /\ last = EmptyMap
  /\ unsubs = {}
  /\ inflight = <<>>
  /\ held = <<>>
  /\ other = NoOther
  /\ visitor = ReturningVisitor
  /\ timer = Constructed(MaxTime - 1)
  /\ kept = <<>>
  /\ log = <<>>

\* a request in flight settles and the method that awaits it goes on
SettleSome ==
  \E i \in 1..MaxInFlight : SettleSubmit(i) \/ Settle(i)

NextFair ==
  \/ Subscribe(1)
  \/ timer.now < MaxTime /\ Submit
  \/ Reset
  \/ timer.now < MaxTime /\ Fetch
  \/ \E op \in {"add", "remove", "post", "vote", "dismiss", "record"} :
       timer.now < MaxTime /\ Patch(op)
  \/ SettleSome
  \/ Tick

\* Weak fairness of Tick and of SettleSome. SettleSome is enabled exactly
\* where a request is in flight, so its weak fairness is written out with
\* that in the place of ENABLED <<SettleSome>>_vars.
SpecFair ==
  /\ InitFair
  /\ [][NextFair]_vars
  /\ WF_vars(Tick)
  /\ ([]<>(inflight = <<>>) \/ []<><<SettleSome>>_vars)

\* Every class with a caller that subscribes listeners, also ones that are
\* subscribed already, keeps every function subscribe() returns and calls
\* them in any order, and one request at a time.
InitTwice == Init

NextTwice ==
  \/ \E l \in ListenerIds : SubscribeKeep(l)
  \/ \E n \in 1..MaxKept : CallKept(n)
  \/ inflight = <<>> /\ Submit
  \/ SettleSubmit(1)
  \/ Reset
  \/ inflight = <<>> /\ Fetch
  \/ Settle(1)

SpecTwice == InitTwice /\ [][NextTwice]_vars

\* The classes with reset() and two listeners, of which the first has a
\* callback that may call reset() and is subscribed before or after the
\* other, and one request at a time.
InitNested ==
  /\ kind \in SubmitKinds
  /\ config = [siteKey |-> Str("sk")]
  /\ document = Undefined
  /\ state = InitialState(kind)
  /\ listeners = <<>>
  /\ script \in {f \in [ListenerIds -> {NoScript} \cup ResetScripts] :
                   \A l \in ListenerIds \ {1} : f[l] = NoScript}
  /\ last = EmptyMap
  /\ unsubs = {}
  /\ inflight = <<>>
  /\ held = <<>>
  /\ other = NoOther
  /\ visitor = ReturningVisitor
  /\ timer = Constructed(FirstTime)
  /\ kept = <<>>
  /\ log = <<>>

NextNested ==
  \/ \E l \in ListenerIds : Subscribe(l)
  \/ \E l \in ListenerIds : Unsubscribe(l)
  \/ inflight = <<>> /\ Submit
  \/ SettleSubmit(1)
  \/ Reset

SpecNested == InitNested /\ [][NextNested]_vars

\* ------------------------------------------------------------ properties
\* what the last segment was
Called(op) == log # <<>> /\ log[1].e = "call" /\ log[1].op = op
SettledLast == log # <<>> /\ log[1].e = "settle"
Registered == {listeners[i] : i \in DOMAIN listeners}

\* C1: in every reachable state of every controller the stored error is
\* non-null if and only if status is Error.
C1_ErrorIffStatusError == (state.error # Null) <=> (state.status = "error")

\* C2: subscribe(fn) calls fn exactly once, before it returns, with a
\* snapshot equal to the current state, whatever ran before.
C2_ReplayOnSubscribe ==
  Called("subscribe") =>
    LET calls == {i \in DOMAIN log : log[i].e = "notify" /\ log[i].l = log[1].l}
    IN /\ Cardinality(calls) = 1
       /\ \A i \in calls : log[i].snap = state /\ i < Len(log)
       /\ log[Len(log)].e = "return"

C2_Witness ==
  /\ Called("subscribe")
  /\ state.status \in {"success", "error"}
  /\ Len(inflight) > 0
  /\ Len(listeners) = 2

\* C3: calling an unsubscribe function again, when its listener is already
\* gone, raises nothing and leaves the listener set as it was; a call of it
\* removes its listener and no other; and a listener that is not registered
\* receives no broadcast.
C3_IdempotentUnsubscribe ==
  /\ Called("unsubscribe") =>
       /\ log[Len(log)].e = "return"
       /\ \A i \in DOMAIN log : log[i].e # "throw"
       /\ ~Has(listeners, log[1].l)
       /\ \A x \in ListenerIds \ {log[1].l} : Has(listeners, x) <=> Has(log[1].before, x)
       /\ ~Has(log[1].before, log[1].l) => listeners = log[1].before
  /\ \A i \in DOMAIN log : log[i].e = "notify" => log[i].l \in Registered

C3_Witness ==
  /\ Called("unsubscribe")
  /\ ~Has(log[1].before, log[1].l)
  /\ Len(listeners) = 1
  /\ state.status = "success"

\* C4: for Reactions, Comments and Announcements, changing a container of a
\* snapshot returned by getState() does not change what getState() returns
\* afterwards.
C4_DefensiveCopy ==
  (log # <<>> /\ log[1].e = "mutate" /\ kind \in {"reactions", "comments", "announcements"})
    => GetState(kind, state).snap = log[1].before

C4_Witness ==
  /\ log # <<>>
  /\ log[1].e = "mutate"
  /\ log[1].path = <<"dismissed">>
  /\ log[1].mine.dismissed = {1}
  /\ log[1].mineAfter.dismissed = {1, 9}
  /\ state.dismissed = {1}

\* C5: for Poll with a poll loaded, changing the results mapping or the
\* userVotes list of a snapshot returned by getState() changes neither the
\* poll a later getState() returns nor the result of hasVoted().
C5_PollDefensiveCopy ==
  (log # <<>> /\ log[1].e = "mutate" /\ kind = "poll")
    => /\ GetState(kind, state).snap = log[1].before
       /\ HasVoted(state) = log[1].votedBefore

\* C6: when the transport call of a method rejects, an Error is stored,
\* the new state is broadcast to every registered listener, and the method
\* rejects with the stored Error; a rejection that is no Error is stored as
\* an Error with its stringified form as message; the method does not
\* resolve.
C6_RejectionStoredAndRethrown ==
  (SettledLast /\ ~log[1].ok) =>
    LET v == log[1].value
    IN /\ state.error.tag = "error"
       /\ v.tag = "error" => state.error = v
       /\ v = Str("boom") => state.error.message = "boom"
       /\ v = Num(7) => state.error.message = "7"
       /\ \A l \in Registered :
            \E i \in DOMAIN log : log[i].e = "notify" /\ log[i].l = l /\ log[i].snap = state
       /\ log[Len(log)].e = "throw"
       /\ \A i \in DOMAIN log :
            /\ log[i].e # "return"
            /\ log[i].e = "throw" => log[i].value = state.error

C6_Witness ==
  /\ SettledLast
  /\ ~log[1].ok
  /\ log[1].value = Num(7)
  /\ log[1].op = "dismiss"
  /\ Len(listeners) = 2

\* C7: submit(), join() and fetch() have set Loading and handed the Loading
\* snapshot to every registered listener when the request is issued, control
\* returns to the caller after that, and Success or Error is written only in
\* the segment that runs when a request has settled.
C7_LoadingBeforeRequest ==
  \A i \in DOMAIN log :
    /\ (log[i].e = "request" /\ log[i].op \in MainOps) =>
         /\ log[i].status = "loading"
         /\ \A l \in Registered :
              \E j \in 1..(i - 1) :
                log[j].e = "notify" /\ log[j].l = l /\ log[j].snap.status = "loading"
         /\ \E j \in (i + 1)..Len(log) : log[j].e = "await"
         /\ \A j \in 1..i : log[j].e \notin {"await", "return"}
    /\ (log[i].e = "set" /\ log[i].status \in {"success", "error"}) => SettledLast
    /\ (log[i].e = "notify" /\ log[1].e = "call" /\ log[1].op \in MainOps) =>
         log[i].snap.status = "loading"

C7_Witness ==
  /\ log # <<>>
  /\ log[1].e = "call"
  /\ log[1].op = "join"
  /\ log[2].e = "set"
  /\ log[2].from = "success"
  /\ Len(listeners) = 2
  /\ Len(inflight) = 2

\* C8 as stated: while a submit(), join() or fetch() request is in flight,
\* status is Loading.
C8_LoadingWhileInFlight ==
  (\E i \in DOMAIN inflight : inflight[i].op \in MainOps) => state.status = "loading"

\* C8 amended: while a submit(), join() or fetch() request is in flight,
\* status is Loading unless, since the last submit(), join() or fetch() call,
\* reset() ran or a request of one of these methods settled.
C8_LoadingUntilDisturbed ==
  \A i \in DOMAIN inflight :
    (inflight[i].op \in MainOps /\ ~inflight[i].disturbed) => state.status = "loading"

C8_Witness ==
  /\ SettledLast
  /\ log[1].op = "add"
  /\ Len(inflight) = 1
  /\ inflight[1].op = "fetch"
  /\ ~inflight[1].disturbed
  /\ state.error # Null

\* C9 as stated: status changes only from Idle, Success or Error to Loading,
\* from Loading to Success or Error, and from any status to Idle.
C9_OnlyListedEdges ==
  \A i \in DOMAIN log :
    (log[i].e = "set" /\ log[i].from # log[i].status) =>
      \/ log[i].from \in {"idle", "success", "error"} /\ log[i].status = "loading"
      \/ log[i].from = "loading" /\ log[i].status \in {"success", "error"}
      \/ log[i].status = "idle"

\* C9 amended: status changes only in three ways: a submit(), join() or
\* fetch() call sets Loading, the settlement of a submit(), join() or fetch()
\* request sets Success or Error from whatever status it finds, and reset()
\* sets Idle.
C9_StatusWriters ==
  \A i \in DOMAIN log :
    (log[i].e = "set" /\ log[i].from # log[i].status) =>
      \/ /\ log[i].status = "loading"
         /\ \E j \in (i + 1)..Len(log) : log[j].e = "request" /\ log[j].op \in MainOps
      \/ /\ log[i].status \in {"success", "error"}
         /\ SettledLast
         /\ log[1].op \in MainOps
      \/ /\ log[i].status = "idle"
         /\ Called("reset")

C9_Witness ==
  /\ SettledLast
  /\ log[1].op = "submit"
  /\ log[2].e = "set"
  /\ log[2].from = "idle"
  /\ log[2].status = "success"

\* C10: when submit() or join() calls of one Subscribe, Waitlist, Form or
\* Feedback instance overlap, the state after a settlement is the one that
\* settlement writes, whatever the order of the calls.
C10_LastSettledWins ==
  (kind \in SubmitKinds /\ SettledLast) =>
    LET v == log[1].value
    IN IF log[1].ok
       THEN /\ state.status = "success"
            /\ state.message = Str(v.message)
            /\ state.error = Null
            /\ kind = "waitlist" =>
                 state.position = IF v.position = Undefined THEN Null ELSE v.position
       ELSE /\ state.status = "error"
            /\ state.error.tag = "error"
            /\ v.tag = "error" => state.error = v
            /\ v = Str("boom") => state.error = Err("boom")
            /\ v = Num(7) => state.error = Err("7")
            /\ state.message = Str(state.error.message)
            /\ kind = "waitlist" => state.position = Null

C10_Witness ==
  /\ kind = "waitlist"
  /\ SettledLast
  /\ log[1].overtaken
  /\ log[1].ok
  /\ log[1].value.position = Num(3)
  /\ inflight = <<>>

\* how often x occurs in the list seq
Occurrences(seq, x) == Cardinality({i \in DOMAIN seq : seq[i] = x})

\* C11: when an add("like") resolves, counts["like"] is the count its
\* response carries and userReactions holds "like" exactly once, also when
\* add() calls overlap and resolve out of order; with server lists that hold
\* each type once, no type is ever twice in userReactions.
C11_AddLastResolvedWins ==
  kind = "reactions" =>
    /\ (SettledLast /\ log[1].op = "add" /\ log[1].ok) =>
         /\ state.counts["like"] = log[1].value.count
         /\ Occurrences(state.userReactions, "like") = 1
    /\ \A t \in ReactionTypes : Occurrences(state.userReactions, t) <= 1

\* the add() issued first resolves after an add() issued later, with no
\* fetch() and no failure before: "like" is there already and stays once
C11_Witness ==
  /\ kind = "reactions"
  /\ SettledLast
  /\ log[1].op = "add"
  /\ log[1].ok
  /\ log[1].overtaken
  /\ \A i \in DOMAIN log : log[i].e = "patch" => log[i].field = "counts"
  /\ state.status = "idle"
  /\ state.error = Null
  /\ state.counts["like"] = 0
  /\ state.userReactions = <<"like">>
  /\ inflight = <<>>

\* the positions of the log where event e of method op stands
Events(e, op) == {i \in DOMAIN log : log[i].e = e /\ log[i].op = op}

\* C12: when the write request of post() has succeeded, post() issues one
\* fetch of the list, after the write resolved, and does not resolve yet;
\* when post() resolves with nothing else in flight, comments is the list
\* that fetch returned and status is Success; the step in which the write
\* resolves leaves the local list as it was.
C12_PostRefetches ==
  /\ [](kind = "comments" =>
         /\ (SettledLast /\ log[1].op = "post" /\ log[1].ok) =>
              /\ Cardinality(Events("request", "fetch")) = 1
              /\ Events("return", "post") = {}
              /\ inflight[Len(inflight)].op = "fetch"
              /\ inflight[Len(inflight)].more # Null
         /\ (Events("return", "post") # {} /\ inflight = <<>>) =>
              /\ SettledLast /\ log[1].op = "fetch" /\ log[1].ok
              /\ Events("request", "fetch") = {}
              /\ state.comments = log[1].value
              /\ state.status = "success"
              /\ \A i \in Events("return", "post") : log[i].value = "c2")
  /\ [][(kind = "comments" /\ log'[1].e = "settle" /\ log'[1].op = "post")
          => state'.comments = state.comments]_vars

\* post() resolves after its fetch brought the list with the new comment
C12_Witness ==
  /\ kind = "comments"
  /\ Events("return", "post") # {}
  /\ inflight = <<>>
  /\ ~log[1].overtaken
  /\ state.comments = <<"c1", "c2">>
  /\ state.status = "success"

\* C13: dismiss(id) adds id to the dismissed set only when its remote call
\* has succeeded: the call itself and a failed call leave the dismissed set
\* and the visible announcements as they were, the set grows only by the id
\* of a dismiss whose call succeeded, and an announcement that is loaded
\* and whose id is not in the set is among the visible ones.
C13_DismissAfterSuccess ==
  /\ [](kind = "announcements" =>
         \A i \in DOMAIN state.announcements :
           state.announcements[i].id \notin state.dismissed
             => Has(GetVisibleAnnouncements(state), state.announcements[i]))
  /\ [][kind = "announcements" =>
          /\ (/\ log'[1].op = "dismiss"
              /\ \/ log'[1].e = "call"
                 \/ log'[1].e = "settle" /\ ~log'[1].ok) =>
               /\ state'.dismissed = state.dismissed
               /\ GetVisibleAnnouncements(state') = GetVisibleAnnouncements(state)
          /\ state'.dismissed # state.dismissed =>
               /\ log'[1].e = "settle" /\ log'[1].op = "dismiss" /\ log'[1].ok
               /\ \E i \in DOMAIN inflight :
                    /\ inflight[i].op = "dismiss"
                    /\ state'.dismissed = state.dismissed \cup {inflight[i].more}]_vars

\* a dismiss() has failed and another is in flight: nothing is dismissed
\* and both announcements are visible
C13_Witness ==
  /\ kind = "announcements"
  /\ SettledLast
  /\ log[1].op = "dismiss"
  /\ ~log[1].ok
  /\ Len(inflight) = 1
  /\ inflight[1].op = "dismiss"
  /\ state.dismissed = {}
  /\ GetVisibleAnnouncements(state) = <<Announcement(1), Announcement(2)>>

\* C14: vote() on an instance whose poll is null issues the remote request;
\* when that request succeeds while the poll is null, vote() resolves with
\* the response of the server, raises nothing, and the poll stays null.
C14_VoteWithoutPoll ==
  [][(kind = "poll" /\ state.poll = Null /\ log'[1].op = "vote") =>
       /\ log'[1].e = "call" =>
            /\ Events("request", "vote")' # {}
            /\ Len(inflight') = Len(inflight) + 1
            /\ state'.poll = Null
       /\ (log'[1].e = "settle" /\ log'[1].ok) =>
            /\ state'.poll = Null
            /\ log'[Len(log')] = [e |-> "return", op |-> "vote", value |-> log'[1].value]
            /\ Events("throw", "vote")' = {}]_vars

\* a vote has succeeded on an instance that never fetched: no poll is loaded
C14_Witness ==
  /\ kind = "poll"
  /\ SettledLast
  /\ log[1].op = "vote"
  /\ log[1].ok
  /\ log[1].value.totalVotes = 2
  /\ state.status = "idle"
  /\ state.poll = Null
  /\ log[Len(log)].e = "return"

\* the methods that call an API function
Mutating == {"submit", "join", "fetch", "add", "remove", "post", "vote", "dismiss", "record"}

\* C15: when neither the config nor the document gives a site key, a call of
\* submit, join, fetch, add, remove, post, vote, dismiss or record sends no
\* request; its promise is rejected with the site-key Error, which is stored
\* and thrown, and the call never resolves.
C15_NoSiteKeyNoRequest ==
  ~GetSiteKey(config, document).ok =>
    /\ \A i \in DOMAIN log : log[i].e \notin {"request", "return"} \/ log[i].op \notin Mutating
    /\ \A i \in DOMAIN inflight : inflight[i].thrown = SiteKeyError
    /\ (log # <<>> /\ log[1].e = "call" /\ log[1].op \in Mutating) =>
         /\ log[Len(log)] = [e |-> "await", op |-> log[1].op]
         /\ inflight # <<>>
    /\ SettledLast =>
         /\ ~log[1].ok
         /\ log[1].value = SiteKeyError
         /\ state.error = SiteKeyError
         /\ log[Len(log)] = [e |-> "throw", op |-> log[1].op, value |-> SiteKeyError]

\* record() has failed for want of a site key: the config has an empty key,
\* and the document an empty jamwidgets tag before a legacy tag with a key
C15_Witness ==
  /\ config = [siteKey |-> Str("")]
  /\ document = Meta(Str(""), Str("sk-old"))
  /\ SettledLast
  /\ log[1].op = "record"
  /\ state.error = SiteKeyError
  /\ state.status = "idle"
  /\ Len(listeners) = 1

\* the calls that the broadcast begun at place b of the log has made
Deliveries(b) == {j \in DOMAIN log : log[j].e = "notify" /\ log[j].b = b}

\* C16: a broadcast calls the listeners that were registered when it began,
\* each once, and no other: a listener added from inside a callback during
\* the broadcast is not called by it, and one removed during the broadcast
\* before its turn is still called.
C16_BroadcastToRegisteredAtStart ==
  \A b \in DOMAIN log :
    log[b].e = "broadcast" =>
      /\ {log[j].l : j \in Deliveries(b)} = {log[b].ls[i] : i \in DOMAIN log[b].ls}
      /\ Cardinality(Deliveries(b)) = Len(log[b].ls)

\* C17: the listeners called by one broadcast are handed equal snapshots,
\* whatever a listener called earlier in it did to the one it was handed.
C17_IndependentSnapshots ==
  \A b \in DOMAIN log :
    log[b].e = "broadcast" =>
      \A i, j \in Deliveries(b) : log[i].snap = log[j].snap

\* the places of the log where _state is written
Writes == {i \in DOMAIN log : log[i].e \in {"set", "patch"}}
Broadcasts == {i \in DOMAIN log : log[i].e = "broadcast"}

\* C18: with listeners that only read, every write to the state (the writes
\* of one patch taken together) is followed by exactly one broadcast before
\* the next write; a broadcast calls every registered listener once, with
\* the status written last before it; and between segments the snapshot a
\* registered listener was handed last equals the state.
C18_BroadcastEveryTransition ==
  /\ \A i \in Writes :
       (i + 1) \notin Writes =>
         Cardinality({b \in Broadcasts :
                        b > i /\ \A w \in Writes : w > i => b < w}) = 1
  /\ \A b \in Broadcasts :
       /\ {log[j].l : j \in Deliveries(b)} = {log[b].ls[i] : i \in DOMAIN log[b].ls}
       /\ Cardinality(Deliveries(b)) = Len(log[b].ls)
       /\ \A j \in Deliveries(b) :
            \A w \in Writes :
              (w < b /\ log[w].e = "set" /\ \A v \in Writes : v < b => v <= w)
                => log[j].snap.status = log[w].status
  /\ DOMAIN last = Registered
  /\ \A l \in Registered : last[l] = GetState(kind, state).snap

\* the fetch of a post() has failed: two writes and two broadcasts in one
\* segment, and both listeners hold the state that resulted
C18_Witness ==
  /\ kind = "comments"
  /\ SettledLast
  /\ log[1].op = "fetch"
  /\ Events("throw", "post") # {}
  /\ Cardinality(Broadcasts) = 2
  /\ Registered = {1, 2}
  /\ last[1] = state
  /\ state.status = "error"

\* the fields of a state that are not status and error
Payload(s) == [f \in DOMAIN s \ {"status", "error"} |-> s[f]]

C20_ResetDoesNotCancel ==
  [][(kind \in SubmitKinds) =>
       /\ Called("reset")' =>
            /\ state' = InitialState(kind)
            /\ Len(inflight') = Len(inflight)
            /\ \A i \in DOMAIN inflight : inflight'[i].op = inflight[i].op
       /\ (state.status = "idle" /\ inflight # <<>> /\ state'.status # "idle") =>
            \/ log'[1].e = "settle"
            \/ Called(MainOp(kind))'
       /\ Len(inflight') < Len(inflight) =>
            /\ log'[1].e = "settle"
            /\ state' = IF log'[1].ok
                        THEN SuccessState(kind, log'[1].value)
                        ELSE ErrorState(kind, NormalizeError(log'[1].value))]_vars

\* a join() that was in flight over a reset() has failed: Idle became Error
C20_Witness ==
  /\ kind = "waitlist"
  /\ SettledLast
  /\ ~log[1].ok
  /\ log[2].e = "set"
  /\ log[2].from = "idle"
  /\ state.status = "error"
  /\ state.position = Null
  /\ inflight = <<>>


\* the calls of listener l in the last segment
CallsOf(l) == {j \in DOMAIN log : log[j].e = "notify" /\ log[j].l = l}

\* C21: reset() of a Subscribe, Waitlist, Form or Feedback controller, in any
\* status, leaves the state equal to the initial state, calls every
\* registered listener exactly once, with that state, in one broadcast, and
\* leaves the listener set as it was.
C21_ResetRestoresInitial ==
  [][Called("reset")' =>
       /\ kind \in SubmitKinds
       /\ state' = InitialState(kind)
       /\ state'.status = "idle" /\ state'.message = Null /\ state'.error = Null
       /\ kind = "waitlist" => state'.position = Null
       /\ listeners' = listeners
       /\ unsubs' = unsubs
       /\ Cardinality({i \in DOMAIN log' : log'[i].e = "broadcast"}) = 1
       /\ \A l \in ListenerIds :
            LET calls == {j \in DOMAIN log' : log'[j].e = "notify" /\ log'[j].l = l}
            IN IF Has(listeners, l)
               THEN /\ Cardinality(calls) = 1
                    /\ \A j \in calls : log'[j].snap = InitialState(kind)
               ELSE calls = {}]_vars

\* reset() of a waitlist controller in status Error with two listeners
\* registered: each is called once and the state is the initial one
C21_Witness ==
  /\ kind = "waitlist"
  /\ Called("reset")
  /\ log[2].e = "set"
  /\ log[2].from = "error"
  /\ Len(listeners) = 2
  /\ \A l \in ListenerIds : Cardinality(CallsOf(l)) = 1
  /\ state = InitialState(kind)

\* the requests sent in the last segment
Requests == {i \in DOMAIN log : log[i].e = "request"}

\* C22: nothing is retried.  A call of submit, join, fetch, add, remove,
\* vote, dismiss or record sends exactly one request, in the segment of the
\* call, and the segment in which that request settles, with success or
\* failure, sends none; post() sends one write request, the segment in
\* which the write succeeds sends exactly one fetch request, and the
\* segments in which the write fails or that fetch settles send none.
C22_NoRetry ==
  /\ \A op \in Mutating :
       Called(op) => /\ Cardinality(Requests) = 1
                     /\ \A i \in Requests : log[i].op = op
  /\ (log # <<>> /\ log[1].e = "call" /\ log[1].op \notin Mutating) => Requests = {}
  /\ SettledLast =>
       IF log[1].op = "post" /\ log[1].ok
       THEN /\ Cardinality(Requests) = 1
            /\ \A i \in Requests : log[i].op = "fetch"
       ELSE Requests = {}
  /\ (log # <<>> /\ log[1].e \notin {"call", "settle"}) => Requests = {}

\* the write of a post() succeeded and the fetch that followed has failed:
\* post() has thrown and no request was sent again
C22_Witness ==
  /\ kind = "comments"
  /\ SettledLast
  /\ log[1].op = "fetch"
  /\ ~log[1].ok
  /\ \E i \in DOMAIN log : log[i].e = "throw" /\ log[i].op = "post"
  /\ Requests = {}
  /\ inflight = <<>>

\* the writes to localStorage in the step that ends in log'
SetItems == {i \in DOMAIN log : log[i].e = "setItem"}

Sets == {i \in DOMAIN log : log[i].e = "set"}

\* C24: no step of add() or remove() of a ReactionsController, the call or
\* the settlement, successful or failed, changes status, whatever the
\* status is; status changes only in a step of fetch().
C24_AddRemoveKeepStatus ==
  [][(kind = "reactions") =>
       /\ log'[1].op \in {"add", "remove"} =>
            /\ state'.status = state.status
            /\ \A i \in Sets' : log'[i].status = log'[i].from
       /\ state'.status # state.status => log'[1].op = "fetch"]_vars

\* an add() has failed while a fetch() is in flight: the error is stored and
\* the status is still Loading
C24_Witness ==
  /\ kind = "reactions"
  /\ SettledLast
  /\ log[1].op = "add"
  /\ ~log[1].ok
  /\ state.status = "loading"
  /\ state.error # Null
  /\ Len(inflight) = 1
  /\ inflight[1].op = "fetch"

\* C25: record() of a ViewCountsController changes nothing before its
\* request, which goes out in the status the call found, and changes status
\* and pageId in no step; the step in which it succeeds replaces views and
\* uniqueVisitors by those of the response and nothing else, the step in
\* which it fails leaves views and uniqueVisitors as they were.
C25_RecordKeepsStatus ==
  [][(kind = "viewcounts" /\ log'[1].op = "record") =>
       /\ state'.status = state.status
       /\ state'.pageId = state.pageId
       /\ \A i \in Sets' : log'[i].status = log'[i].from
       /\ log'[1].e = "call" =>
            /\ state' = state
            /\ Sets' = {}
            /\ \A i \in Requests' : log'[i].status = state.status
       /\ (log'[1].e = "settle" /\ log'[1].ok) =>
            state' = [state EXCEPT !.views = log'[1].value.views,
                                   !.uniqueVisitors = log'[1].value.uniqueVisitors]
       /\ (log'[1].e = "settle" /\ ~log'[1].ok) =>
            /\ state'.views = state.views
            /\ state'.uniqueVisitors = state.uniqueVisitors]_vars

\* a record() has succeeded after a fetch() had failed: the counts are those
\* of the response, status is still Error and the error is still stored
C25_Witness ==
  /\ kind = "viewcounts"
  /\ SettledLast
  /\ log[1].op = "record"
  /\ log[1].ok
  /\ state.status = "error"
  /\ state.error # Null
  /\ state.views = 2
  /\ state.uniqueVisitors = log[1].value.uniqueVisitors

\* the throws of post() in the last segment
PostThrows == Events("throw", "post")

\* C26 as stated: whenever post() rejects, the error is stored and thrown
\* and the status is the one the call of post() had found, whether the write
\* or the fetch after it failed.
C26_PostRejectRestoresStatus ==
  (kind = "comments" /\ PostThrows # {}) =>
    /\ \A i \in PostThrows : state.error = log[i].value
    /\ state.status = log[1].more.before

\* C26 amended: whenever post() rejects, the error thrown is the one stored
\* and the throw ends the segment; where the write failed, no assignment of
\* the segment changed status; where the write succeeded and the fetch after
\* it failed, status is Error.
C26_PostRejectStoresError ==
  (kind = "comments" /\ PostThrows # {}) =>
    /\ SettledLast
    /\ ~log[1].ok
    /\ PostThrows = {Len(log)}
    /\ state.error = log[Len(log)].value
    /\ state.error = NormalizeError(log[1].value)
    /\ log[1].op = "post" => \A i \in Sets : log[i].status = log[i].from
    /\ log[1].op = "fetch" => state.status = "error"
    /\ log[1].op \in {"post", "fetch"}

\* post() was called in status Idle with nothing else in flight, its write
\* succeeded and its fetch has failed: post() has thrown and status is Error
C26_Witness ==
  /\ kind = "comments"
  /\ PostThrows # {}
  /\ log[1].op = "fetch"
  /\ log[1].more.before = "idle"
  /\ ~log[1].overtaken
  /\ inflight = <<>>
  /\ state.status = "error"
  /\ state.error # Null

\* C27: no step of fetch() of an AnnouncementsController, the call, the
\* success or the failure, changes the dismissed set, so after it settles
\* the set holds what it held before and what a dismiss() added meanwhile;
\* the successful settlement replaces the list by the one of the response.
C27_FetchKeepsDismissed ==
  [][(kind = "announcements" /\ log'[1].op = "fetch") =>
       /\ state'.dismissed = state.dismissed
       /\ (log'[1].e = "settle" /\ log'[1].ok) => state'.announcements = log'[1].value
       /\ (log'[1].e = "settle" /\ ~log'[1].ok) =>
            state'.announcements = state.announcements]_vars

\* a fetch() has succeeded after a request issued later than it had settled,
\* and the set holds a dismissed id next to the new list
C27_Witness ==
  /\ kind = "announcements"
  /\ SettledLast
  /\ log[1].op = "fetch"
  /\ log[1].ok
  /\ log[1].overtaken
  /\ state.dismissed = {1}
  /\ Len(state.announcements) = 2
  /\ Len(GetVisibleAnnouncements(state)) = 1

\* C28: the dismissed set of an AnnouncementsController only grows: no step
\* of fetch() or dismiss(), call or settlement, of subscribe() or of an
\* unsubscribe takes an id out of it.
C28_DismissedOnlyGrows ==
  [][(kind = "announcements") => state.dismissed \subseteq state'.dismissed]_vars

\* both ids are dismissed, and a dismiss() of one of them has succeeded again
C28_Witness ==
  /\ kind = "announcements"
  /\ SettledLast
  /\ log[1].op = "dismiss"
  /\ log[1].ok
  /\ log[1].more \in state.dismissed
  /\ log[1].overtaken
  /\ state.dismissed = {1, 2}

\* the reaction types in a userReactions list
Types(userReactions) == {userReactions[i] : i \in DOMAIN userReactions}

\* C29 as stated: a type leaves userReactions only in the step in which a
\* remove() of that type succeeds, and no step takes a key out of counts.
C29_OnlyRemoveEvicts ==
  [][(kind = "reactions") =>
       /\ \A t \in Types(state.userReactions) \ Types(state'.userReactions) :
            /\ log'[1].e = "settle"
            /\ log'[1].op = "remove"
            /\ log'[1].ok
            /\ log'[1].more = t
       /\ DOMAIN state.counts \subseteq DOMAIN state'.counts]_vars

\* C29 amended: a type leaves userReactions only in the step in which a
\* remove() of that type succeeds or a fetch() succeeds whose response does
\* not list it; a key leaves counts only in the step in which a fetch()
\* succeeds whose response does not have it.
C29_RemoveOrFetchEvicts ==
  [][(kind = "reactions") =>
       /\ \A t \in Types(state.userReactions) \ Types(state'.userReactions) :
            /\ log'[1].e = "settle"
            /\ log'[1].ok
            /\ \/ log'[1].op = "remove" /\ log'[1].more = t
               \/ log'[1].op = "fetch" /\ t \notin Types(log'[1].value.userReactions)
       /\ \A key \in DOMAIN state.counts \ DOMAIN state'.counts :
            /\ log'[1].e = "settle"
            /\ log'[1].ok
            /\ log'[1].op = "fetch"
            /\ key \notin DOMAIN log'[1].value.counts]_vars

\* a caller holds a snapshot with "like" in userReactions and in counts; a
\* fetch() has since succeeded with a response that has neither
C29_Witness ==
  /\ kind = "reactions"
  /\ held # <<>>
  /\ held[1].snap.userReactions = <<"like">>
  /\ "like" \in DOMAIN held[1].snap.counts
  /\ SettledLast
  /\ log[1].op = "fetch"
  /\ log[1].ok
  /\ state.userReactions = <<>>
  /\ state.counts = EmptyMap

\* C30: the step in which a vote(selectedOptions) succeeds on a
\* PollController with a poll loaded sets the poll's results and totalVotes
\* to those of the response and its userVotes to selectedOptions, and
\* leaves the other fields of the poll, the status and the error as they
\* were.
C30_VoteMergesThreeFields ==
  [][(kind = "poll" /\ log'[1].e = "settle" /\ log'[1].op = "vote" /\ log'[1].ok
        /\ state.poll # Null) =>
       /\ state'.status = state.status
       /\ state'.error = state.error
       /\ DOMAIN state' = DOMAIN state
       /\ state'.poll.results = log'[1].value.results
       /\ state'.poll.totalVotes = log'[1].value.totalVotes
       /\ state'.poll.userVotes = Arr(log'[1].more)
       /\ DOMAIN state'.poll = DOMAIN state.poll
       /\ \A f \in DOMAIN state.poll \ {"results", "totalVotes", "userVotes"} :
            state'.poll[f] = state.poll[f]]_vars

\* a vote for two options has succeeded on a poll that was loaded before a
\* later fetch() failed: the poll has the new results and votes, status is
\* still Error and the error is still stored
C30_Witness ==
  /\ kind = "poll"
  /\ SettledLast
  /\ log[1].op = "vote"
  /\ log[1].ok
  /\ log[1].more = <<"a", "b">>
  /\ state.poll # Null
  /\ state.poll.userVotes = Arr(<<"a", "b">>)
  /\ state.poll.totalVotes = 2
  /\ state.poll.question = "q"
  /\ state.status = "error"
  /\ state.error # Null

\* C37: the step in which a fetch() is called changes status to Loading and
\* error to null, the step in which a fetch() fails changes status to Error
\* and error to the normalised rejection, and both leave every other field
\* of the state (comments, counts and userReactions, poll, announcements
\* and dismissed, pageId, views and uniqueVisitors) as it was.
C37_FailedFetchKeepsPayload ==
  [][(kind \in FetchKinds /\ log'[1].op = "fetch") =>
       /\ log'[1].e = "call" =>
            /\ Payload(state') = Payload(state)
            /\ state'.status = "loading"
            /\ state'.error = Null
       /\ (log'[1].e = "settle" /\ ~log'[1].ok) =>
            /\ Payload(state') = Payload(state)
            /\ state'.status = "error"
            /\ state'.error = NormalizeError(log'[1].value)]_vars

\* a fetch() of reactions has failed after an earlier one had loaded counts
\* and userReactions: both are still there under status Error
C37_Witness ==
  /\ kind = "reactions"
  /\ SettledLast
  /\ log[1].op = "fetch"
  /\ ~log[1].ok
  /\ state.status = "error"
  /\ state.counts = ("like" :> 2)
  /\ state.userReactions = <<"like">>
  /\ inflight = <<>>

\* C38: when a fetch() of a ReactionsController succeeds, counts and
\* userReactions are exactly those of its response, also when an add() or
\* remove() issued after the fetch has settled before it; what that call
\* had patched is gone.
C38_FetchDiscardsPatch ==
  (kind = "reactions" /\ SettledLast /\ log[1].op = "fetch" /\ log[1].ok) =>
    /\ state.counts = log[1].value.counts
    /\ state.userReactions = log[1].value.userReactions
    /\ state.status = "success"

\* a fetch() has succeeded with a response without reactions, after a
\* request issued later than it had settled, and two listeners were told:
\* no count and no type is left
C38_Witness ==
  /\ kind = "reactions"
  /\ SettledLast
  /\ log[1].op = "fetch"
  /\ log[1].ok
  /\ log[1].overtaken
  /\ log[1].value.counts = EmptyMap
  /\ state.counts = EmptyMap
  /\ state.userReactions = <<>>
  /\ Len(listeners) = 2

\* C31: every FormController.submit() sends as load timestamp the loadTime
\* taken at construction or at the latest reset(), and leaves it as it is;
\* no settling and no passing of time changes it, so consecutive submits
\* send the same timestamp; reset() replaces it with the second of the
\* reset.
C31_LoadTimeOfLastReset ==
  [][(kind = "form") =>
       /\ (log'[1].e = "call" /\ log'[1].op = "submit") =>
            /\ timer'.loadTime = timer.loadTime
            /\ \A i \in DOMAIN log' :
                 log'[i].e = "request" => log'[i].ts = timer.loadTime
            /\ \E i \in DOMAIN log' : log'[i].e = "request"
       /\ (log'[1].e = "call" /\ log'[1].op = "reset") => timer'.loadTime = timer.now
       /\ log'[1].e \in {"settle", "tick"} => timer'.loadTime = timer.loadTime]_vars

\* the second of two submits after a reset at second 2 is sent at second 3
\* while the first is in flight: it carries 2
C31_Witness ==
  /\ kind = "form"
  /\ Called("submit")
  /\ Len(inflight) = 2
  /\ timer = [now |-> 3, loadTime |-> 2]
  /\ \E i \in DOMAIN log : log[i].e = "request" /\ log[i].ts = 2
  /\ inflight[1].more.formLoadTime = 2

\* the places of the log where a listener throws
Raises == {i \in DOMAIN log : log[i].e = "raise"}

\* C32: a listener that throws ends the broadcast it was called in: no
\* listener is called in that broadcast after it. The exception leaves the
\* method that broadcast (subscribe(), reset(), or a controller method at
\* its Loading broadcast or in its catch block) as it was thrown, or is
\* taken by the catch block of the controller method whose try body
\* broadcast, which assigns a state next.
C32_ThrowStopsBroadcast ==
  \A i \in Raises :
    /\ log[i - 1].e = "notify" /\ log[i - 1].l = log[i].l
    /\ \A j \in (i + 1)..Len(log) : log[j].e = "notify" => log[j].b # log[i - 1].b
    /\ i < Len(log)
    /\ \/ /\ log[i + 1].e = "throw"
          /\ log[i + 1].value = log[i].value
          /\ log[i + 1].op \in {log[1].op} \cup (IF kind = "comments" THEN {"fetch", "post"}
                                                 ELSE {})
       \/ /\ log[i + 1].e = "set"
          /\ log[1].e = "settle" /\ log[1].ok
          /\ \A j \in Raises : j >= i

\* reset() broadcasts to listeners 1 and 2; listener 1 throws, listener 2 is
\* not called and reset() throws
C32_Witness ==
  /\ Called("reset")
  /\ listeners = <<1, 2>>
  /\ Raises # {}
  /\ \A i \in DOMAIN log : log[i].e = "notify" => log[i].l = 1
  /\ log[Len(log)] = [e |-> "throw", op |-> "reset", value |-> Str("boom")]

\* C33: when a listener throws in the broadcast of a successful add() or
\* remove() of ReactionsController, the patch stays: counts has the count of
\* the response for the type, userReactions has the type after add() and
\* not after remove(), and nothing else in them changed; the call rejects,
\* and the state carries what the listener threw as error (wrapped in an
\* error where it is none).
C33_PatchStaysOnListenerThrow ==
  [][(/\ kind = "reactions"
      /\ log'[1].e = "settle" /\ log'[1].op \in {"add", "remove"} /\ log'[1].ok
      /\ Raises' # {}) =>
       LET type == log'[1].more
           first == CHOOSE i \in Raises' : \A j \in Raises' : i <= j
       IN /\ state'.counts = (type :> log'[1].value.count) @@ state.counts
          /\ state'.userReactions =
               IF log'[1].op = "add"
               THEN IF Has(state.userReactions, type) THEN state.userReactions
                    ELSE Append(state.userReactions, type)
               ELSE SelectSeq(state.userReactions, LAMBDA r : r # type)
          /\ state'.error = NormalizeError(log'[first].value)
          /\ state'.status = state.status
          /\ log'[Len(log')].e = "throw" /\ log'[Len(log')].op = log'[1].op
          /\ \A i \in DOMAIN log' : log'[i].e # "return"]_vars

\* add("like") succeeded with count 2 while the status was Success; the
\* listener threw a string in its broadcast, and in the broadcast of the
\* catch block: the call rejected with the string, the state has the patch
\* and the wrapped error
C33_Witness ==
  /\ kind = "reactions"
  /\ SettledLast /\ log[1].op = "add" /\ log[1].ok
  /\ Cardinality(Raises) = 2
  /\ state.status = "success"
  /\ Has(state.userReactions, log[1].more)
  /\ state.counts[log[1].more] = log[1].value.count
  /\ state.error = Err("boom")
  /\ log[Len(log)] = [e |-> "throw", op |-> "add", value |-> Str("boom")]

\* the listener throws in the broadcast of the state the try body of
\* submit(), join() or fetch() assigned
ThrowAtSuccess ==
  /\ SettledLast /\ log[1].op \in MainOps /\ log[1].ok
  /\ Raises # {}

\* C34: when a listener throws in the Success broadcast of submit(), join()
\* or fetch(), the catch block assigns status Error with the listener's
\* exception as error (wrapped in an error where it is none) and broadcasts
\* a second time; the call rejects, with the error or with what a listener
\* throws in the second broadcast, and does not return the response.
C34_ThrowAtSuccessEndsInError ==
  ThrowAtSuccess =>
    LET first == CHOOSE i \in Raises : \A j \in Raises : i <= j
        error == NormalizeError(log[first].value)
        rejection == CHOOSE j \in DOMAIN log : log[j].e = "throw" /\ log[j].op = log[1].op
    IN /\ log[2].e = "set" /\ log[2].status = "success" /\ log[3].e = "broadcast"
       /\ log[first - 1].b = 3
       /\ log[first + 1].e = "set" /\ log[first + 1].status = "error"
       /\ log[first + 2].e = "broadcast"
       /\ state.status = "error"
       /\ state.error = error
       /\ \E j \in DOMAIN log : log[j].e = "throw" /\ log[j].op = log[1].op
       /\ log[rejection].value = IF Cardinality(Raises) > 1 THEN log[rejection - 1].value
                                 ELSE error
       /\ \A i \in DOMAIN log : log[i].e # "return"

\* join() succeeded, the listener threw a string at Success only: the state
\* is Error with the wrapped string, listener 2 was told of the error, and
\* the call rejected with it
C34_Witness ==
  /\ kind = "waitlist"
  /\ ThrowAtSuccess
  /\ Cardinality(Raises) = 1
  /\ listeners = <<1, 2>>
  /\ state.status = "error" /\ state.error = Err("boom")
  /\ last[2].status = "error"
  /\ log[Len(log)] = [e |-> "throw", op |-> "join", value |-> Err("boom")]

\* C35: when a listener throws in the Loading broadcast of submit(), join()
\* or fetch(), the call rejects with what the listener threw, as it was
\* thrown; no request is sent and none is awaited, and the status is Loading
\* after the call. With nothing in flight a status of Loading is left only
\* by reset(); a later call that gets past its Loading broadcast sends a
\* request, whose settlement then changes the status.
C35_ThrowAtLoadingLeavesLoading ==
  [][/\ (log'[1].e = "call" /\ log'[1].op \in MainOps /\ Raises' # {}) =>
          /\ Cardinality(Raises') = 1
          /\ \A i \in Raises' :
               /\ log'[i - 1].snap.status = "loading"
               /\ log'[Len(log')] = [e |-> "throw", op |-> log'[1].op,
                                      value |-> log'[i].value]
          /\ \A i \in DOMAIN log' : log'[i].e \notin {"request", "await", "return"}
          /\ inflight' = inflight
          /\ state'.status = "loading"
     /\ (state.status = "loading" /\ inflight = <<>> /\ state'.status # "loading") =>
          log'[1].e = "call" /\ log'[1].op = "reset"]_vars

\* fetch() of comments was called with nothing in flight and listener 1,
\* first of two, threw a string at Loading: the call rejected with the
\* string, nothing is in flight and the status is Loading
C35_Witness ==
  /\ kind = "comments"
  /\ Called("fetch")
  /\ listeners = <<1, 2>>
  /\ Raises # {}
  /\ state.status = "loading"
  /\ inflight = <<>>
  /\ log[Len(log)] = [e |-> "throw", op |-> "fetch", value |-> Str("boom")]

\* the method call a settling request belongs to ends in this segment, or,
\* for post(), goes on to await its fetch()
EndsItsCall ==
  LET end == log[Len(log)]
      method == IF log[1].op = "fetch" /\ log[1].more # Null THEN "post" ELSE log[1].op
  IN \/ end.e \in {"return", "throw"} /\ end.op = method
     \/ log[1].op = "post" /\ log[1].ok /\ end = [e |-> "await", op |-> "fetch"]

\* C36: where every request in flight settles in the end and no listener
\* throws, every settlement ends the method call that awaited it in a return
\* or a throw (post() after its fetch()), every request has settled once the
\* callers have stopped calling, a status of Loading never lasts, and with
\* nothing in flight the status is not Loading.
C36_NoCallHangs ==
  /\ [](SettledLast => EndsItsCall)
  /\ [](inflight = <<>> => state.status # "loading")
  /\ <>[](inflight = <<>>)
  /\ (state.status = "loading") ~> (state.status # "loading")

\* two overlapping calls of a Loading-setting method have both settled, the
\* later one first, and nothing is in flight
C36_Witness ==
  /\ SettledLast /\ log[1].op \in MainOps /\ log[1].overtaken
  /\ EndsItsCall
  /\ inflight = <<>>
  /\ state.status \in {"success", "error"}
  /\ timer.now = MaxTime

\* the calls of listener l in the broadcast that began at place b of the
\* log of the step, 0 for the replay of subscribe()
CallsIn(b, l) ==
  Cardinality({j \in DOMAIN log' : log'[j].e = "notify" /\ log'[j].b = b /\ log'[j].l = l})

\* C39: the listeners are a set of functions. subscribe(l) calls l once with
\* the current state whether l is registered or not, and leaves l registered
\* once, in the place it had; every broadcast calls every registered
\* listener once; every function subscribe(l) ever returned takes l out
\* altogether, however often l was subscribed and whether l was taken out
\* and subscribed again since that function was returned.
C39_RegisteredByIdentity ==
  [][/\ (log'[1].e = "call" /\ log'[1].op = "subscribe") =>
          /\ CallsIn(0, log'[1].l) = 1
          /\ \A j \in DOMAIN log' : log'[j].e = "notify" =>
               log'[j].l = log'[1].l /\ log'[j].snap = GetState(kind, state).snap
          /\ listeners' = IF Has(listeners, log'[1].l) THEN listeners
                          ELSE Append(listeners, log'[1].l)
          /\ kept'[Len(kept')].listener = log'[1].l
     /\ \A b \in DOMAIN log' : log'[b].e = "broadcast" =>
          \A l \in ListenerIds : CallsIn(b, l) = IF Has(listeners, l) THEN 1 ELSE 0
     /\ \A i, j \in DOMAIN listeners' : listeners'[i] = listeners'[j] => i = j
     /\ (log'[1].e = "call" /\ log'[1].op = "unsubscribe") =>
          /\ log'[1].l = kept[log'[1].closure].listener
          /\ listeners' = SelectSeq(listeners, LAMBDA x : x # log'[1].l)
          /\ kept' = kept]_vars

\* listener 1 was subscribed twice, taken out, and subscribed again; now the
\* function the first subscribe(1) returned is called and takes it out
C39_Witness ==
  /\ kept = <<[listener |-> 1, again |-> FALSE], [listener |-> 1, again |-> TRUE],
              [listener |-> 1, again |-> FALSE]>>
  /\ Called("unsubscribe") /\ log[1].closure = 1
  /\ log[1].before = <<1>>
  /\ listeners = <<>>
  /\ log[Len(log)].value = [tag |-> "boolean", b |-> TRUE]

\* the places of the log where a callback calls a method of the controller
NestedCalls == {c \in DOMAIN log : c > 1 /\ log[c].e = "call"}

\* the listeners that come after l in the sequence ls
After(ls, l) ==
  {ls[q] : q \in {q \in DOMAIN ls : \E p \in DOMAIN ls : p < q /\ ls[p] = l}}

\* C40: when a callback calls reset() during a broadcast, reset() assigns
\* the initial state and hands it to every registered listener in a
\* broadcast of its own before it returns; the broadcast that was under way
\* then goes on and hands the listeners after the caller the snapshot it
\* began with, which is not the state any more. So after the step the state
\* is the initial state, and the last snapshot of each of those listeners is
\* the older one.
C40_NestedBroadcastFirst ==
  \A c \in NestedCalls :
    LET outer == log[c - 1].b
        older == log[c - 1].snap
        newer == GetState(kind, InitialState(kind)).snap
        nested == c + 2
        remaining == IF outer = 0 THEN {} ELSE After(log[outer].ls, log[c].by)
    IN /\ log[c - 1].e = "notify" /\ log[c - 1].l = log[c].by
       /\ log[c].op = "reset"
       /\ log[c + 1].e = "set" /\ log[nested].e = "broadcast"
       /\ older # newer
       /\ \A r \in {log[nested].ls[q] : q \in DOMAIN log[nested].ls} :
            \E j \in DOMAIN log :
              log[j] = [e |-> "notify", l |-> r, snap |-> newer, b |-> nested]
       /\ \A r \in remaining :
            \E k \in DOMAIN log :
              /\ log[k] = [e |-> "notify", l |-> r, snap |-> older, b |-> outer]
              /\ \A j \in DOMAIN log :
                   (log[j].e = "notify" /\ log[j].b = nested) => j < k
       /\ state = InitialState(kind)
       /\ \A r \in remaining : last[r] = older /\ last[r] # GetState(kind, state).snap

\* submit() succeeded with listeners 1 and 2 registered; listener 1 called
\* reset() when it was handed Success: listener 2 was handed Idle and then
\* Success, and the state is Idle
C40_Witness ==
  /\ SettledLast /\ log[1].ok
  /\ NestedCalls # {}
  /\ listeners = <<1, 2>>
  /\ state.status = "idle"
  /\ last[1].status = "idle"
  /\ last[2].status = "success"
====
